---- MODULE Spec2Model ----
(***************************************************************************)
(* A model of comprs: a byte-stream compression library built on Huffman   *)
(* coding.  The bit streams (BitWriter, BitReader), the adaptive (Vitter)  *)
(* Huffman tree and its codec, and the static Huffman builder, its length  *)
(* limiter, its coding tables and its codec are modelled as operators      *)
(* translated from the Rust source; the state machines below drive them.   *)
(*                                                                         *)
(* Representation.  A u64 is a sequence of 64 bits, most significant bit   *)
(* first (TLC's integers are 32 bits wide).  A Vec is a sequence; the Rust *)
(* index i of nodes is position i + 1 of the sequence (see At).  A         *)
(* WeightType value is a natural number below 2^WeightBits.                *)
(***************************************************************************)
EXTENDS Integers, Sequences, FiniteSets, TLC

VARIABLES
    pc,        \* the phase of the machine
    enc,       \* the encoder's DynamicHuffman
    dec,       \* the decoder's DynamicHuffman
    bitw,      \* the encoder's BitWriter
    bitr,      \* the decoder's BitReader
    sent,      \* the symbols encoded so far
    recv,      \* the symbols decoded so far
    encHist,   \* encHist[k]: the encoder's node array after encoding sent[k]
    encSeen,   \* the symbols the encoder has added since its tree was last virgin
    decSeen,   \* the same for the decoder
    buffer,    \* decode_loop's output buffer
    written,   \* what decode_loop has written to its writer
    input,     \* the bytes the codec's encode_loop has read from its source
    weights,          \* the weight vector handed to build_from_weights
    overflow_checks,  \* whether the build panics on arithmetic overflow (it wraps otherwise)
    prefix_code,      \* the PrefixCode built, limited or read from the stream
    max_length,       \* the argument of the last apply_max_length_limit
    encoder_table,    \* the static encoder's table of (code, length) per symbol
    decoder,          \* the static decoder's PrefixDecoder
    input_len         \* the input length the static decoder read from the stream

\* The variables of the adaptive tree.
treeVars == <<enc, dec, encHist, encSeen, decSeen>>

\* The variables of the static Huffman builder and of the static codec.
staticVars ==
    <<weights, overflow_checks, prefix_code, max_length, encoder_table, decoder, input_len>>

vars ==
    <<pc, enc, dec, bitw, bitr, sent, recv, encHist, encSeen, decSeen, buffer, written,
      input, weights, overflow_checks, prefix_code, max_length, encoder_table, decoder,
      input_len>>

(***************************************************************************)
(* Bounds of the model.                                                    *)
(***************************************************************************)
\* Width of WeightType in the model (u32 in the source).
WeightBits == 4
\* Alphabet size handed to DynamicHuffman::new.
DynNumSymbols == 3
\* Longest symbol sequence the adaptive tree machine encodes.
MaxSyms == 8
\* Alphabet size of the adaptive codec in the model: the byte values and the end
\* marker (NUM_SYMBOLS = 257 in the source).
CodecNumSymbols == 3
\* Longest input of the adaptive codec.
CodecMaxBytes == 8
\* Width of the static builder's WeightType in the model (u32 in the source).
StaticWeightBits == 5
\* Number of symbols of the weight vectors of the builder machine.
BuildNumSymbols == 3
\* Number of symbols of the weight vectors of the length-limit machine.
LimitNumSymbols == 6
\* Largest weight of the weight vectors of the length-limit machine.
LimitMaxWeight == 4
\* Number of distinct byte values of the static codec's inputs.
StaticByteValues == 3
\* Longest input of the static codec.
StaticMaxBytes == 4
\* Width of the WeightType of the scenario machine (u32 in the source).
ScenarioWeightBits == 7
\* The largest length limit of the scenario machine.
ScenarioMaxLimit == 6
\* The most bytes that follow the encoder's output in the static decoder's source.
StaticMaxTail == 9
\* Longest code word of the codes of the coding-table machine.
TableMaxLength == 12
\* Number of depths at which a code of the coding-table machine has two internal nodes.
TableWide == 3
\* Longest sequence of write_bits calls of the bit-stream machine.
BitsMaxWrites == 3
\* Longest source of the reader machine, in bytes.
ReaderMaxBytes == 17
\* Largest number of read_bits and consume calls of the reader machine.
ReaderMaxReads == 4
\* Longest code word of the codes of the header machine.
HeaderMaxLength == 4
\* Largest number of symbols of one code length in the codes of the header machine.
HeaderMaxCount == 4
\* Largest number of length fields of the streams the header machine writes field
\* by field.
HeaderMaxFields == 3
\* Longest input of one call of the reused adaptive codec.
StreamsMaxBytes == 3
\* Number of streams the reused adaptive codec encodes.
StreamsMaxCalls == 2
\* Longest source of the decoder fed with arbitrary bytes.
ForgedMaxBytes == 2
\* Largest number of decode calls on a source of arbitrary bytes.
ForgedMaxSyms == 5
\* Number of symbols of the weight vectors of the heap machine.
HeapNumSymbols == 4
\* Largest weight of the weight vectors of the heap machine.
HeapMaxWeight == 3
\* The words the failing-writer machine writes after the word that fills the buffer.
WriterMaxExtra == 2
\* The longest source of the failing-source machine.
ErrorsMaxBytes == 2
\* The number of reads narrower than a word in the failing-source machine.
ErrorsMaxNarrow == 1

(***************************************************************************)
(* Bit operations: src/bits/bit_ops.rs                                     *)
(***************************************************************************)
WORD_BITS == 64

ZeroWord == [i \in 1..WORD_BITS |-> 0]

\* The u64 holding the natural number v (v < 2^30).
ToWord(v) ==
    [i \in 1..WORD_BITS |->
        IF WORD_BITS - i < 30 THEN (v \div (2 ^ (WORD_BITS - i))) % 2 ELSE 0]

RECURSIVE LowBits(_, _)
\* The value of the low n bits of word w (n <= 30): `as u16`, `as usize`.
LowBits(w, n) ==
    IF n = 0 THEN 0
    ELSE w[WORD_BITS] + 2 * LowBits([i \in 1..WORD_BITS |-> IF i = 1 THEN 0 ELSE w[i - 1]], n - 1)

\* data << bits for bits < 64.
Shl(data, bits) ==
    [i \in 1..WORD_BITS |-> IF i + bits <= WORD_BITS THEN data[i + bits] ELSE 0]

\* data >> bits for bits < 64.
Shr(data, bits) ==
    [i \in 1..WORD_BITS |-> IF i - bits >= 1 THEN data[i - bits] ELSE 0]

shift_left(data, bits) == IF bits = 64 THEN ZeroWord ELSE Shl(data, bits)

\* shift_right without the case of a whole word: the shift amount taken modulo 64.
shift_right_Masked(data, bits) == Shr(data, bits % 64)

shift_right(data, bits) == IF bits = 64 THEN ZeroWord ELSE Shr(data, bits)

\* a | b
BitOr(a, b) == [i \in 1..WORD_BITS |-> IF a[i] = 1 \/ b[i] = 1 THEN 1 ELSE 0]

\* u64::to_be_bytes
to_be_bytes(w) ==
    [k \in 1..8 |->
        128 * w[8 * k - 7] + 64 * w[8 * k - 6] + 32 * w[8 * k - 5] + 16 * w[8 * k - 4]
        + 8 * w[8 * k - 3] + 4 * w[8 * k - 2] + 2 * w[8 * k - 1] + w[8 * k]]

\* u64::from_be_bytes of an array of 8 bytes
from_be_bytes(bytes) ==
    [i \in 1..WORD_BITS |-> (bytes[((i - 1) \div 8) + 1] \div (2 ^ (7 - ((i - 1) % 8)))) % 2]

(***************************************************************************)
(* BitWriter: src/bits/bit_writer.rs                                       *)
(* `out`, `out_fails` and `out_partial` are the underlying writer: `out`   *)
(* is what it has received.                                                *)
(***************************************************************************)
BUF_SIZE == 8192

BitWriter_new ==
    [data |-> ZeroWord, bits_avail |-> 64, buf |-> <<>>, out |-> <<>>,
     out_fails |-> <<>>, out_partial |-> 0, bytes_written |-> 0, write_errors |-> 0]

\* writer.write_all(&buf): what the writer has received after it.  out_fails[k]
\* tells whether the k-th coming write_all returns Err; a failing write_all has
\* stored the first out_partial bytes by then.  write_all of no bytes calls no
\* write and returns Ok.
write_all(bw) ==
    IF bw.out_fails # <<>> /\ Head(bw.out_fails) /\ bw.buf # <<>>
    THEN bw.out \o SubSeq(bw.buf, 1, IF bw.out_partial < Len(bw.buf)
                                      THEN bw.out_partial ELSE Len(bw.buf))
    ELSE bw.out \o bw.buf

\* flush that keeps the buffer after a failed write, to write it again.
BitWriter_flush_Retry(bw) ==
    IF bw.out_fails # <<>> /\ Head(bw.out_fails) /\ bw.buf # <<>>
    THEN [bw EXCEPT !.out = write_all(bw),
                    !.out_fails = Tail(@),
                    !.write_errors = @ + 1]
    ELSE [bw EXCEPT !.out = write_all(bw),
                    !.out_fails = IF @ = <<>> THEN @ ELSE Tail(@),
                    !.bytes_written = @ + Len(bw.buf),
                    !.buf = <<>>]

BitWriter_flush(bw) ==
    [bw EXCEPT !.out = write_all(bw),
               !.out_fails = IF @ = <<>> THEN @ ELSE Tail(@),
               !.write_errors = IF bw.out_fails # <<>> /\ Head(bw.out_fails) /\ bw.buf # <<>>
                                THEN @ + 1 ELSE @,
               !.bytes_written = @ + Len(bw.buf),
               !.buf = <<>>]

BitWriter_write_u64(bw, data) ==
    LET b == [bw EXCEPT !.buf = @ \o to_be_bytes(data)]
    IN  IF Len(b.buf) >= BUF_SIZE THEN BitWriter_flush(b) ELSE b

\* write_bits that leaves the bits that did not fit at the low end of the next word.
BitWriter_write_bits_LowAligned(bw, data, bits) ==
    IF bw.bits_avail >= bits
    THEN [bw EXCEPT !.data = BitOr(@, shift_left(data, bw.bits_avail - bits)),
                    !.bits_avail = @ - bits]
    ELSE [BitWriter_write_u64(bw, BitOr(bw.data, shift_right(data, bits - bw.bits_avail)))
             EXCEPT !.data = data,
                    !.bits_avail = 64 - (bits - bw.bits_avail)]

BitWriter_write_bits(bw, data, bits) ==
    IF bw.bits_avail >= bits
    THEN [bw EXCEPT !.data = BitOr(@, shift_left(data, bw.bits_avail - bits)),
                    !.bits_avail = @ - bits]
    ELSE LET remaining_bits == bits - bw.bits_avail
             data_to_write == BitOr(bw.data, shift_right(data, remaining_bits))
             b == BitWriter_write_u64(bw, data_to_write)
             new_bits_avail == 64 - remaining_bits
         IN  [b EXCEPT !.data = shift_left(data, new_bits_avail),
                       !.bits_avail = new_bits_avail]

\* finish that writes only the whole bytes of the partial word.
BitWriter_finish_WholeBytes(bw) ==
    BitWriter_flush([bw EXCEPT !.buf = @ \o SubSeq(to_be_bytes(bw.data), 1, (64 - bw.bits_avail) \div 8)])

BitWriter_finish(bw) ==
    LET num_bytes == (64 + 7 - bw.bits_avail) \div 8
        b == IF num_bytes > 0
             THEN [bw EXCEPT !.buf = @ \o SubSeq(to_be_bytes(bw.data), 1, num_bytes)]
             ELSE bw
    IN  BitWriter_flush(b)

(***************************************************************************)
(* BitReader: src/bits/bit_reader.rs                                       *)
(* `src`, `src_pos`, `src_fails` and `src_chunk` are the underlying reader; *)
(* `buf` holds the buf_end bytes the last read stored.                     *)
(***************************************************************************)
BitReader_new(src) ==
    [data |-> ZeroWord, bits_avail |-> 0, buf |-> <<>>, buf_pos |-> 0, buf_end |-> 0,
     src |-> src, src_pos |-> 0, src_fails |-> <<>>, src_chunk |-> BUF_SIZE,
     bytes_read |-> 0, num_read_errors |-> 0, panicked |-> FALSE]

\* fill_buf that counts a read of no bytes as a read error.
BitReader_fill_buf_EosError(br) ==
    IF ~(br.src_fails # <<>> /\ Head(br.src_fails)) /\ Len(br.src) - br.src_pos > 0
    THEN [br EXCEPT !.buf_pos = 0,
                    !.src_fails = IF @ = <<>> THEN @ ELSE Tail(@),
                    !.buf = SubSeq(br.src, br.src_pos + 1, Len(br.src)),
                    !.src_pos = Len(br.src),
                    !.buf_end = Len(br.src) - br.src_pos,
                    !.bytes_read = @ + (Len(br.src) - br.src_pos)]
    ELSE [br EXCEPT !.buf_pos = 0, !.buf_end = 0, !.num_read_errors = @ + 1,
                    !.src_fails = IF @ = <<>> THEN @ ELSE Tail(@)]

\* The number of read errors beyond which fill_buf panics.
MAX_READ_ERRORS == 100

\* fill_buf that panics once the count of read errors reaches the limit.
BitReader_fill_buf_PanicAtLimit(br) ==
    IF br.src_fails # <<>> /\ Head(br.src_fails)
    THEN [br EXCEPT !.buf_pos = 0,
                    !.src_fails = Tail(@),
                    !.buf_end = 0,
                    !.num_read_errors = @ + 1,
                    !.panicked = (br.num_read_errors + 1 >= MAX_READ_ERRORS)]
    ELSE [br EXCEPT !.buf_pos = 0,
                    !.src_fails = IF @ = <<>> THEN @ ELSE Tail(@),
                    !.buf = SubSeq(br.src, br.src_pos + 1, Len(br.src)),
                    !.src_pos = Len(br.src),
                    !.buf_end = Len(br.src) - br.src_pos,
                    !.bytes_read = @ + (Len(br.src) - br.src_pos)]

\* reader.read(&mut buf[..]) and the match of fill_buf.  src_fails[k] tells whether
\* the k-th coming read of the source returns Err; every read after those is that of
\* a MemReader or Cursor, which stores all the bytes asked for when it has them; a
\* reader that stores at most src_chunk bytes per read is another io::Read.
\* `panicked` is set by the panic of the Err arm; the caller does not return then.
BitReader_fill_buf(br) ==
    LET available == Len(br.src) - br.src_pos
        asked == IF BUF_SIZE < br.src_chunk THEN BUF_SIZE ELSE br.src_chunk
        size == IF asked < available THEN asked ELSE available
    IN  IF br.src_fails # <<>> /\ Head(br.src_fails)
        THEN [br EXCEPT !.buf_pos = 0,
                        !.src_fails = Tail(@),
                        !.buf_end = 0,
                        !.num_read_errors = @ + 1,
                        !.panicked = (br.num_read_errors + 1 > MAX_READ_ERRORS)]
        ELSE [br EXCEPT !.buf_pos = 0,
                        !.src_fails = IF @ = <<>> THEN @ ELSE Tail(@),
                        !.buf = SubSeq(br.src, br.src_pos + 1, br.src_pos + size),
                        !.src_pos = @ + size,
                        !.buf_end = size,
                        !.bytes_read = @ + size]

RECURSIVE next_bytes_slow(_, _, _, _)
\* The slow path of next_bytes: one byte at a time into data[i..num_bytes].
next_bytes_slow(br, data, i, num_bytes) ==
    IF i >= num_bytes THEN [br |-> br, data |-> data]
    ELSE LET b1 == IF br.buf_pos = br.buf_end THEN BitReader_fill_buf(br) ELSE br
         IN  IF b1.buf_pos = b1.buf_end THEN [br |-> b1, data |-> data]
             ELSE next_bytes_slow([b1 EXCEPT !.buf_pos = @ + 1],
                                  [data EXCEPT ![i + 1] = b1.buf[b1.buf_pos + 1]],
                                  i + 1, num_bytes)

\* next_bytes whose fast path takes the eight bytes it returns.
BitReader_next_bytes_WholeWord(br, num_bytes) ==
    IF br.buf_end - br.buf_pos >= 8
    THEN [br |-> [br EXCEPT !.buf_pos = @ + 8],
          data |-> from_be_bytes(SubSeq(br.buf, br.buf_pos + 1, br.buf_pos + 8))]
    ELSE LET r == next_bytes_slow(br, <<0, 0, 0, 0, 0, 0, 0, 0>>, 0, num_bytes)
         IN  [br |-> r.br, data |-> from_be_bytes(r.data)]

\* Returns the reader and the u64 read.
BitReader_next_bytes(br, num_bytes) ==
    IF br.buf_end - br.buf_pos >= 8
    THEN [br |-> [br EXCEPT !.buf_pos = @ + num_bytes],
          data |-> from_be_bytes(SubSeq(br.buf, br.buf_pos + 1, br.buf_pos + 8))]
    ELSE LET r == next_bytes_slow(br, <<0, 0, 0, 0, 0, 0, 0, 0>>, 0, num_bytes)
         IN  [br |-> r.br, data |-> from_be_bytes(r.data)]

RECURSIVE next_u64_rest(_, _, _)
\* The tail of next_u64's slow path: bytes data[i..8] after fill_buf.
next_u64_rest(br, data, i) ==
    IF i >= 8 THEN [br |-> br, data |-> data]
    ELSE IF br.buf_pos < br.buf_end
         THEN next_u64_rest([br EXCEPT !.buf_pos = @ + 1],
                            [data EXCEPT ![i + 1] = br.buf[br.buf_pos + 1]], i + 1)
         ELSE next_u64_rest(br, data, i + 1)

BitReader_next_u64(br) ==
    LET pos == br.buf_pos
        b0 == [br EXCEPT !.buf_pos = @ + 8]
    IN  IF b0.buf_pos <= b0.buf_end
        THEN [br |-> b0, data |-> from_be_bytes(SubSeq(br.buf, pos + 1, pos + 8))]
        ELSE LET bytes == br.buf_end - pos
                 data0 == [i \in 1..8 |-> IF i <= bytes THEN br.buf[pos + i] ELSE 0]
                 r == next_u64_rest(BitReader_fill_buf(b0), data0, bytes)
             IN  [br |-> r.br, data |-> from_be_bytes(r.data)]

BitReader_fill_data(br) ==
    LET num_bytes == (64 - br.bits_avail) \div 8
        r == BitReader_next_bytes(br, num_bytes)
    IN  [r.br EXCEPT !.data = BitOr(@, shift_right(r.data, br.bits_avail)),
                     !.bits_avail = @ + num_bytes * 8]

\* consume that leaves data in place.
BitReader_consume_NoShift(br, bits) ==
    [br EXCEPT !.bits_avail = @ - bits]

BitReader_consume(br, bits) ==
    [br EXCEPT !.data = shift_left(@, bits), !.bits_avail = @ - bits]

\* Returns the reader and the u64 result.
BitReader_read_bits(br, bits) ==
    LET result == shift_right(br.data, 64 - bits)
    IN  IF br.bits_avail >= bits
        THEN [br |-> [br EXCEPT !.data = shift_left(@, bits), !.bits_avail = @ - bits],
              result |-> result]
        ELSE LET n == BitReader_next_u64(br)
                 extra_bits == bits - br.bits_avail
                 new_avail == 64 - extra_bits
             IN  [br |-> [n.br EXCEPT !.bits_avail = new_avail,
                                      !.data = shift_left(n.data, extra_bits)],
                  result |-> BitOr(result, shift_right(n.data, new_avail))]

\* finish that counts the bytes still in the buffer.
BitReader_finish_CountBuffered(br) ==
    [br EXCEPT !.buf_pos = 0, !.buf_end = 0]

BitReader_finish(br) ==
    [br EXCEPT !.bytes_read = @ - (br.buf_end - br.buf_pos), !.buf_pos = 0, !.buf_end = 0]

(***************************************************************************)
(* DynamicHuffman: src/huffman/dynamic_huffman.rs                          *)
(* A DynamicHuffman is a record [nodes, num_symbols, symbol_bits].  The    *)
(* operations that can panic return ok = FALSE when an assertion or an     *)
(* index check fails.                                                      *)
(***************************************************************************)
\* WeightType::MAX
WEIGHT_MAX == (2 ^ WeightBits) - 1

RESET_WEIGHT == WEIGHT_MAX - 2

NYT_SYMBOL == 0

\* Wrapping addition of WeightType.
AddW(a, b) == (a + b) % (2 ^ WeightBits)

Node(w, p, c) == [weight |-> w, parent |-> p, child |-> c]

\* nodes[i]
At(nodes, i) == nodes[i + 1]

root_node_id(h) == h.num_symbols + 1

initialize_nodes(num_symbols) ==
    [i \in 1..(num_symbols + 1) |-> Node(WEIGHT_MAX, 0, 0)] \o <<Node(0, 0, NYT_SYMBOL)>>

RECURSIVE symbol_bits_loop(_, _)
symbol_bits_loop(symbol_bits, num_symbols) ==
    IF 2 ^ symbol_bits < num_symbols THEN symbol_bits_loop(symbol_bits + 1, num_symbols)
    ELSE symbol_bits

DynamicHuffman_new(num_symbols) ==
    [nodes |-> initialize_nodes(num_symbols),
     num_symbols |-> num_symbols,
     symbol_bits |-> symbol_bits_loop(0, num_symbols)]

\* reset_if_necessary that resets as soon as the root's weight reaches RESET_WEIGHT.
reset_if_necessary_AtThreshold(h) ==
    IF At(h.nodes, root_node_id(h)).weight >= RESET_WEIGHT
    THEN [h EXCEPT !.nodes = initialize_nodes(h.num_symbols)]
    ELSE h

\* reset_if_necessary that never resets.
reset_if_necessary_Never(h) == h

reset_if_necessary(h) ==
    IF At(h.nodes, root_node_id(h)).weight > RESET_WEIGHT
    THEN [h EXCEPT !.nodes = initialize_nodes(h.num_symbols)]
    ELSE h

\* update without the write to the right child's parent.
update_LeftChildOnly(nodes, num_symbols, node_id, from) ==
    LET n1 == [nodes EXCEPT ![node_id + 1].weight = from.weight,
                            ![node_id + 1].child = from.child]
    IN  [n1 EXCEPT ![from.child + 1].parent = node_id]

\* The inner fn update of swap_subtrees.
update(nodes, num_symbols, node_id, from) ==
    LET n1 == [nodes EXCEPT ![node_id + 1].weight = from.weight,
                            ![node_id + 1].child = from.child]
        n2 == [n1 EXCEPT ![from.child + 1].parent = node_id]
    IN  IF from.child > num_symbols
        THEN [n2 EXCEPT ![from.child + 2].parent = node_id]
        ELSE n2

swap_subtrees(nodes, num_symbols, node1_id, node2_id) ==
    LET node1_copy == At(nodes, node1_id)
        node2_copy == At(nodes, node2_id)
    IN  update(update(nodes, num_symbols, node1_id, node2_copy),
               num_symbols, node2_id, node1_copy)

\* The scan for the leader of the weight group left out.
ScanSameWeight_NoScan(nodes, prev_id, weight) == prev_id

RECURSIVE ScanSameWeight(_, _, _)
\* while prev_weight == weight { prev_id -= 1; ... }: the prev_id it stops at.
ScanSameWeight(nodes, prev_id, weight) ==
    IF At(nodes, prev_id).weight = weight
    THEN ScanSameWeight(nodes, prev_id - 1, weight)
    ELSE prev_id

RECURSIVE ScanBelowTarget(_, _, _, _)
\* while prev_weight < target_weight { prev_id -= 1; ... }: the prev_id it stops at.
ScanBelowTarget(nodes, prev_id, prev_weight, target_weight) ==
    IF prev_weight < target_weight
    THEN ScanBelowTarget(nodes, prev_id - 1, At(nodes, prev_id - 1).weight, target_weight)
    ELSE prev_id

\* slide_and_increment without the return for a node that follows its parent.
slide_and_increment_PastParent(nodes0, num_symbols, node_id0) ==
    LET weight == At(nodes0, node_id0).weight
        nodes1 == [nodes0 EXCEPT ![node_id0 + 1].weight = AddW(weight, 2)]
        parent_id0 == At(nodes0, node_id0).parent
        prev_id0 == node_id0 - 1
        prev_weight0 == At(nodes1, prev_id0).weight
    IN  IF prev_weight0 >= AddW(weight, 2)
        THEN [nodes |-> nodes1, ret |-> parent_id0, ok |-> TRUE]
        ELSE
        LET stop1 == ScanSameWeight(nodes1, prev_id0, weight)
            prev_weight1 == At(nodes1, stop1).weight
            prev_id1 == stop1 + 1
            swap1 == prev_id1 < node_id0
            assert1 == swap1 => parent_id0 < prev_id1
            nodes2 == IF swap1 THEN swap_subtrees(nodes1, num_symbols, node_id0, prev_id1)
                      ELSE nodes1
            node_id1 == IF swap1 THEN prev_id1 ELSE node_id0
            parent_id1 == IF swap1 THEN At(nodes2, node_id1).parent ELSE parent_id0
            target_weight == AddW(weight, 2)
            stop2 == ScanBelowTarget(nodes2, prev_id1, prev_weight1, target_weight)
            prev_id2 == stop2 + 1
            swap2 == prev_id2 < node_id1
            assert2 == swap2 => At(nodes2, node_id1).parent < prev_id2
            nodes3 == IF swap2 THEN swap_subtrees(nodes2, num_symbols, node_id1, prev_id2)
                      ELSE nodes2
            node_id2 == IF swap2 THEN prev_id2 ELSE node_id1
        IN  IF ~assert1 THEN [nodes |-> nodes1, ret |-> 0, ok |-> FALSE]
            ELSE IF ~assert2 THEN [nodes |-> nodes2, ret |-> 0, ok |-> FALSE]
            ELSE [nodes |-> nodes3,
                  ret |-> IF weight % 2 = 1 THEN parent_id1
                          ELSE At(nodes3, node_id2).parent,
                  ok |-> TRUE]

\* slide_and_increment that returns, for an internal node, the parent of its parent.
slide_and_increment_SkipLevel(nodes0, num_symbols, node_id0) ==
    LET weight == At(nodes0, node_id0).weight
        nodes1 == [nodes0 EXCEPT ![node_id0 + 1].weight = AddW(weight, 2)]
        parent_id0 == At(nodes0, node_id0).parent
        prev_id0 == node_id0 - 1
        prev_weight0 == At(nodes1, prev_id0).weight
    IN  IF prev_weight0 >= AddW(weight, 2) \/ prev_id0 = parent_id0
        THEN [nodes |-> nodes1, ret |-> parent_id0, ok |-> TRUE]
        ELSE
        LET stop1 == ScanSameWeight(nodes1, prev_id0, weight)
            prev_weight1 == At(nodes1, stop1).weight
            prev_id1 == stop1 + 1
            swap1 == prev_id1 < node_id0
            assert1 == swap1 => parent_id0 < prev_id1
            nodes2 == IF swap1 THEN swap_subtrees(nodes1, num_symbols, node_id0, prev_id1)
                      ELSE nodes1
            node_id1 == IF swap1 THEN prev_id1 ELSE node_id0
            parent_id1 == IF swap1 THEN At(nodes2, node_id1).parent ELSE parent_id0
            target_weight == AddW(weight, 2)
            stop2 == ScanBelowTarget(nodes2, prev_id1, prev_weight1, target_weight)
            prev_id2 == stop2 + 1
            swap2 == prev_id2 < node_id1
            assert2 == swap2 => At(nodes2, node_id1).parent < prev_id2
            nodes3 == IF swap2 THEN swap_subtrees(nodes2, num_symbols, node_id1, prev_id2)
                      ELSE nodes2
            node_id2 == IF swap2 THEN prev_id2 ELSE node_id1
        IN  IF ~assert1 THEN [nodes |-> nodes1, ret |-> 0, ok |-> FALSE]
            ELSE IF ~assert2 THEN [nodes |-> nodes2, ret |-> 0, ok |-> FALSE]
            ELSE [nodes |-> nodes3,
                  ret |-> IF weight % 2 = 1 THEN At(nodes3, parent_id1).parent
                          ELSE At(nodes3, node_id2).parent,
                  ok |-> TRUE]

\* Returns [nodes, ret, ok]: ret is the parent to update next.
slide_and_increment(nodes0, num_symbols, node_id0) ==
    LET weight == At(nodes0, node_id0).weight
        nodes1 == [nodes0 EXCEPT ![node_id0 + 1].weight = AddW(weight, 2)]
        parent_id0 == At(nodes0, node_id0).parent
        prev_id0 == node_id0 - 1
        prev_weight0 == At(nodes1, prev_id0).weight
    IN  IF prev_weight0 >= AddW(weight, 2) \/ prev_id0 = parent_id0
        THEN [nodes |-> nodes1, ret |-> parent_id0, ok |-> TRUE]
        ELSE
        LET stop1 == ScanSameWeight(nodes1, prev_id0, weight)
            prev_weight1 == At(nodes1, stop1).weight
            prev_id1 == stop1 + 1
            swap1 == prev_id1 < node_id0
            assert1 == swap1 => parent_id0 < prev_id1
            nodes2 == IF swap1 THEN swap_subtrees(nodes1, num_symbols, node_id0, prev_id1)
                      ELSE nodes1
            node_id1 == IF swap1 THEN prev_id1 ELSE node_id0
            parent_id1 == IF swap1 THEN At(nodes2, node_id1).parent ELSE parent_id0
            target_weight == AddW(weight, 2)
            stop2 == ScanBelowTarget(nodes2, prev_id1, prev_weight1, target_weight)
            prev_id2 == stop2 + 1
            swap2 == prev_id2 < node_id1
            assert2 == swap2 => At(nodes2, node_id1).parent < prev_id2
            nodes3 == IF swap2 THEN swap_subtrees(nodes2, num_symbols, node_id1, prev_id2)
                      ELSE nodes2
            node_id2 == IF swap2 THEN prev_id2 ELSE node_id1
        IN  IF ~assert1 THEN [nodes |-> nodes1, ret |-> 0, ok |-> FALSE]
            ELSE IF ~assert2 THEN [nodes |-> nodes2, ret |-> 0, ok |-> FALSE]
            ELSE [nodes |-> nodes3,
                  ret |-> IF weight % 2 = 1 THEN parent_id1
                          ELSE At(nodes3, node_id2).parent,
                  ok |-> TRUE]

RECURSIVE slide_and_increment_loop(_, _, _)
RECURSIVE slide_and_increment_next(_, _)
\* The loop test after one slide_and_increment returned r.
slide_and_increment_next(r, num_symbols) ==
    IF ~r.ok THEN [nodes |-> r.nodes, ok |-> FALSE]
    ELSE IF r.ret = 0 THEN [nodes |-> r.nodes, ok |-> TRUE]
    ELSE slide_and_increment_loop(r.nodes, num_symbols, r.ret)

\* while node_id != 0 { node_id = slide_and_increment(node_id) }: returns [nodes, ok].
slide_and_increment_loop(nodes, num_symbols, node_id) ==
    slide_and_increment_next(slide_and_increment(nodes, num_symbols, node_id), num_symbols)

\* add_new_symbol pushing the new NYT before the new leaf.
add_new_symbol_NytFirst(nodes, num_symbols, symbol) ==
    LET nyt_id == Len(nodes) - 1
        n1 == [nodes EXCEPT ![nyt_id + 1].weight = 1, ![nyt_id + 1].child = nyt_id + 1]
        n2 == Append(n1, Node(0, nyt_id, NYT_SYMBOL))
        n3 == Append(n2, Node(2, nyt_id, symbol + 1))
        n4 == [n3 EXCEPT ![symbol + 2].parent = nyt_id + 2]
    IN  slide_and_increment_loop(n4, num_symbols, nyt_id)

\* add_new_symbol leaving the symbol slot's parent unset.
add_new_symbol_NoSlot(nodes, num_symbols, symbol) ==
    LET nyt_id == Len(nodes) - 1
        n1 == [nodes EXCEPT ![nyt_id + 1].weight = 1, ![nyt_id + 1].child = nyt_id + 1]
        n2 == Append(n1, Node(2, nyt_id, symbol + 1))
        n4 == Append(n2, Node(0, nyt_id, NYT_SYMBOL))
    IN  slide_and_increment_loop(n4, num_symbols, nyt_id)

\* add_new_symbol that gives the new NYT leaf a slot at index 0.
add_new_symbol_NytSlot(nodes, num_symbols, symbol) ==
    LET nyt_id == Len(nodes) - 1
        n1 == [nodes EXCEPT ![nyt_id + 1].weight = 1, ![nyt_id + 1].child = nyt_id + 1]
        n2 == Append(n1, Node(2, nyt_id, symbol + 1))
        n3 == [n2 EXCEPT ![symbol + 2].parent = nyt_id + 1]
        n4 == Append(n3, Node(0, nyt_id, NYT_SYMBOL))
    IN  slide_and_increment_loop([n4 EXCEPT ![1].parent = nyt_id + 2], num_symbols, nyt_id)

\* Returns [nodes, ok]; ok is FALSE when symbol + 1 indexes past the array.
add_new_symbol(nodes, num_symbols, symbol) ==
    LET nyt_id == Len(nodes) - 1
        n1 == [nodes EXCEPT ![nyt_id + 1].weight = 1, ![nyt_id + 1].child = nyt_id + 1]
        n2 == Append(n1, Node(2, nyt_id, symbol + 1))
    IN  IF symbol + 1 >= Len(n2) THEN [nodes |-> n2, ok |-> FALSE]
        ELSE LET n3 == [n2 EXCEPT ![symbol + 2].parent = nyt_id + 1]
                 n4 == Append(n3, Node(0, nyt_id, NYT_SYMBOL))
             IN  slide_and_increment_loop(n4, num_symbols, nyt_id)

RECURSIVE output_code_loop(_, _, _, _, _, _)
\* The loop of output_code; bit is 1 << len throughout.
output_code_loop(nodes, node_id, parent_id, code, len, bw) ==
    LET parent_node == At(nodes, parent_id)
        code1 == IF parent_node.child # node_id
                 THEN [code EXCEPT ![WORD_BITS - len] = 1] ELSE code
        len1 == len + 1
        parent_id1 == parent_node.parent
    IN  IF parent_id1 = 0 THEN BitWriter_write_bits(bw, code1, len1)
        ELSE IF len1 = 64
             THEN output_code_loop(nodes, parent_id, parent_id1, ZeroWord, 0,
                                   BitWriter_write_bits(bw, code1, len1))
             ELSE output_code_loop(nodes, parent_id, parent_id1, code1, len1, bw)

output_code(nodes, node_id, bw) ==
    output_code_loop(nodes, node_id, At(nodes, node_id).parent, ZeroWord, 0, bw)

\* The raw symbol written one bit short.
output_raw_symbol_Narrow(h, symbol, bw) ==
    BitWriter_write_bits(bw, ToWord(symbol \div 2), h.symbol_bits - 1)

output_raw_symbol(h, symbol, bw) == BitWriter_write_bits(bw, ToWord(symbol), h.symbol_bits)

\* The tail of encode: the tree update r = [nodes, ok] stored, then reset_if_necessary.
encode_update(h, r, bw) ==
    [h |-> reset_if_necessary([h EXCEPT !.nodes = r.nodes]), bw |-> bw, ok |-> r.ok]

\* encode that writes the raw symbol before the code of the NYT leaf.
DynamicHuffman_encode_RawFirst(h, symbol, bw) ==
    LET node_id == At(h.nodes, symbol + 1).parent
        nyt_id == Len(h.nodes) - 1
    IN  IF node_id # 0
        THEN encode_update(h, slide_and_increment_loop(h.nodes, h.num_symbols, node_id),
                           output_code(h.nodes, node_id, bw))
        ELSE encode_update(h, add_new_symbol(h.nodes, h.num_symbols, symbol),
                           IF nyt_id = root_node_id(h) THEN output_raw_symbol(h, symbol, bw)
                           ELSE output_code(h.nodes, nyt_id, output_raw_symbol(h, symbol, bw)))

\* Returns [h, bw, ok].
DynamicHuffman_encode(h, symbol, bw) ==
    LET node_id == At(h.nodes, symbol + 1).parent
        nyt_id == Len(h.nodes) - 1
    IN  IF node_id # 0
        THEN encode_update(h, slide_and_increment_loop(h.nodes, h.num_symbols, node_id),
                           output_code(h.nodes, node_id, bw))
        ELSE encode_update(h, add_new_symbol(h.nodes, h.num_symbols, symbol),
                           output_raw_symbol(h, symbol,
                               IF nyt_id = root_node_id(h) THEN bw
                               ELSE output_code(h.nodes, nyt_id, bw)))

RECURSIVE decode_walk(_, _, _, _, _, _)
RECURSIVE decode_from(_, _, _)
\* The descent from node_id with the reader's word: data = bit_reader.peek(),
\* bits_avail = bit_reader.bits_avail(), bits_consumed = 0.
decode_from(h, br, node_id) == decode_walk(h, br, node_id, br.data, 0, br.bits_avail)

\* The descent loop of decode: returns [br, node_id, child_id, bits_consumed].
decode_walk(h, br, node_id, data, bits_consumed, bits_avail) ==
    LET child_id == At(h.nodes, node_id).child
    IN  IF child_id <= h.num_symbols
        THEN [br |-> br, node_id |-> node_id, child_id |-> child_id,
              bits_consumed |-> bits_consumed]
        ELSE IF bits_consumed + 1 = bits_avail
             THEN decode_from(h, BitReader_fill_data(BitReader_consume(br, bits_avail)),
                              child_id + data[1])
             ELSE decode_walk(h, br, child_id + data[1], Shl(data, 1), bits_consumed + 1,
                              bits_avail)

\* The tail of decode: the tree update r = [nodes, ok] stored, then reset_if_necessary.
decode_update(h, r, br, symbol) ==
    [h |-> reset_if_necessary([h EXCEPT !.nodes = r.nodes]), br |-> br, symbol |-> symbol,
     ok |-> r.ok]

\* The NYT arm of decode after rd = reader.read_bits(symbol_bits).
decode_new_symbol(h, rd) ==
    LET new_symbol == LowBits(rd.result, 16)
    IN  decode_update(h, add_new_symbol(h.nodes, h.num_symbols, new_symbol), rd.br, new_symbol)

\* decode returning the leaf's child field instead of child - 1.
decode_leaf_OffByOne(h, w) ==
    LET br2 == BitReader_consume(w.br, w.bits_consumed)
    IN  IF w.child_id = NYT_SYMBOL
        THEN decode_new_symbol(h, BitReader_read_bits(br2, h.symbol_bits))
        ELSE decode_update(h, slide_and_increment_loop(h.nodes, h.num_symbols, w.node_id),
                           br2, w.child_id)

\* decode after the descent stopped at the leaf w.node_id.
decode_leaf(h, w) ==
    LET br2 == BitReader_consume(w.br, w.bits_consumed)
    IN  IF w.child_id = NYT_SYMBOL
        THEN decode_new_symbol(h, BitReader_read_bits(br2, h.symbol_bits))
        ELSE decode_update(h, slide_and_increment_loop(h.nodes, h.num_symbols, w.node_id),
                           br2, w.child_id - 1)

\* Returns [h, br, symbol, ok].
DynamicHuffman_decode(h, br0) ==
    decode_leaf(h, decode_from(h, IF br0.bits_avail < 16 THEN BitReader_fill_data(br0) ELSE br0,
                               root_node_id(h)))

(***************************************************************************)
(* StaticHuffman: src/huffman/static_huffman.rs                            *)
(* A HeapNode is a record [weight, symbol], a ParentNode a record          *)
(* [parent, level].  A WeightType value is a natural number below          *)
(* 2^StaticWeightBits.  overflow_checks tells whether an arithmetic        *)
(* overflow panics (as in a build with overflow checks) or wraps.          *)
(***************************************************************************)
\* WeightType::MAX + 1.  The scenario machine builds from the weights of the spec's
\* scenario, whose sums fit a u32: it has a WeightType wide enough for them.
WEIGHT_MODULUS ==
    2 ^ (IF pc \in {"scenario", "heap_start", "merging"} THEN ScenarioWeightBits
         ELSE StaticWeightBits)

\* The function f over 1..n as a sequence.
AsSeq(f) == <<>> \o f

HeapNode(symbol, weight) == [weight |-> weight, symbol |-> symbol]

ParentNode(parent, level) == [parent |-> parent, level |-> level]

RECURSIVE heapify_up_loop(_, _, _)
\* The while loop of heapify_up and the store after it.
heapify_up_loop(heap, pos, orig_node) ==
    IF pos > 0 /\ ~(At(heap, (pos - 1) \div 2).weight <= orig_node.weight)
    THEN heapify_up_loop([heap EXCEPT ![pos + 1] = At(heap, (pos - 1) \div 2)],
                         (pos - 1) \div 2, orig_node)
    ELSE [heap EXCEPT ![pos + 1] = orig_node]

heapify_up(heap, pos) == heapify_up_loop(heap, pos, At(heap, pos))

RECURSIVE heapify_down_loop(_, _, _, _)
\* The loop of heapify_down from pos, and the store after it.
heapify_down_loop(heap, size, insert_node, pos) ==
    LET left == pos * 2 + 1
        right == left + 1
        smaller == IF right < size
                   THEN IF At(heap, left).weight <= At(heap, right).weight THEN left ELSE right
                   ELSE left
    IN  IF left >= size \/ insert_node.weight <= At(heap, smaller).weight
        THEN [heap EXCEPT ![pos + 1] = insert_node]
        ELSE heapify_down_loop([heap EXCEPT ![pos + 1] = At(heap, smaller)], size,
                               insert_node, smaller)

\* heapify_down that stores the node at the root without moving it down.
heapify_down_AtRoot(heap, size, insert_node) == [heap EXCEPT ![1] = insert_node]

heapify_down(heap, size, insert_node) == heapify_down_loop(heap, size, insert_node, 0)

\* The vector `symbols` after the first loop: the symbols of non-zero weight, in order.
nonzero_symbols(wts) ==
    SelectSeq(AsSeq([k \in 1..Len(wts) |-> k - 1]), LAMBDA i : wts[i + 1] > 0)

\* The vector `table` after the first loop: weights[i] << 1 drops the top bit.
initial_table(wts, symbols) ==
    AsSeq([k \in 1..Len(symbols) |->
              HeapNode(k - 1, (wts[symbols[k] + 1] * 2) % WEIGHT_MODULUS)])

RECURSIVE heapify_table(_, _)
\* for i in i..symbol_size { heapify_up(&mut table, i) }
heapify_table(table, i) ==
    IF i < Len(table) THEN heapify_table(heapify_up(table, i), i + 1) ELSE table

\* (left.weight & MASK) + (right.weight & MASK) + 1, before it is stored in a WeightType.
parent_weight(left, right) ==
    (left.weight - (left.weight % 2)) + (right.weight - (right.weight % 2)) + 1

RECURSIVE merge_loop(_, _, _, _, _)
RECURSIVE merge_parent(_, _, _, _, _, _)
\* The body of the while loop after the first heapify_down: table1 is the heap without
\* its minimum `left`.
merge_parent(table1, left, parents, parent_index, size, checks) ==
    LET right == At(table1, 0)
        sum == parent_weight(left, right)
    IN  IF sum >= WEIGHT_MODULUS /\ checks
        THEN [parents |-> parents, ok |-> FALSE]
        ELSE merge_loop(heapify_down(table1, size, HeapNode(parent_index, sum % WEIGHT_MODULUS)),
                        [parents EXCEPT ![left.symbol + 1].parent = parent_index,
                                        ![right.symbol + 1].parent = parent_index],
                        parent_index + 1, size, checks)

\* while size >= 2 { ... }: returns [parents, ok]; ok is FALSE when an addition
\* overflows in a build that checks.
merge_loop(table, parents, parent_index, size, checks) ==
    IF size >= 2
    THEN merge_parent(heapify_down(table, size - 1, At(table, size - 1)), At(table, 0),
                      parents, parent_index, size - 1, checks)
    ELSE [parents |-> parents, ok |-> TRUE]

RECURSIVE level_loop(_, _, _)
\* for i in (symbol_size..symbol_size * 2 - 2).rev(): from i down to symbol_size.
level_loop(parents, i, symbol_size) ==
    IF i < symbol_size THEN parents
    ELSE level_loop([parents EXCEPT ![i + 1].level =
                                        At(parents, At(parents, i).parent).level + 1],
                    i - 1, symbol_size)

\* while level >= lengths.len() { lengths.push(Vec::new()) }
pad_lengths(lengths, level) ==
    lengths \o [k \in 1..(level + 1 - Len(lengths)) |-> <<>>]

RECURSIVE output_loop(_, _, _, _)
\* for i in i..symbol_size: the code length of each symbol into its bucket.
output_loop(lengths, parents, symbols, i) ==
    IF i >= Len(symbols) THEN lengths
    ELSE LET level == At(parents, At(parents, i).parent).level + 1
         IN  output_loop([pad_lengths(lengths, level) EXCEPT ![level + 1] = Append(@, symbols[i + 1])],
                         parents, symbols, i + 1)

\* The end of build_from_weights given the merge loop's result m.
build_lengths(m, symbols) ==
    IF ~m.ok THEN [lengths |-> <<>>, ok |-> FALSE]
    ELSE [lengths |-> output_loop(<<>>, level_loop(m.parents, 2 * Len(symbols) - 3, Len(symbols)),
                                  symbols, 0),
          ok |-> TRUE]

\* build_from_weights after the first loop gave `symbols`.
build_from_symbols(wts, symbols, checks) ==
    IF Len(symbols) = 0 THEN [lengths |-> <<>>, ok |-> FALSE]
    ELSE build_lengths(merge_loop(heapify_table(initial_table(wts, symbols), 1),
                                  AsSeq([k \in 1..(2 * Len(symbols)) |-> ParentNode(0, 0)]),
                                  Len(symbols), Len(symbols), checks),
                       symbols)

\* Returns [lengths, ok]; ok is FALSE when an assertion fails or an addition overflows
\* in a build that checks.
build_from_weights(num_symbols, wts, checks) ==
    IF Len(wts) # num_symbols THEN [lengths |-> <<>>, ok |-> FALSE]
    ELSE build_from_symbols(wts, nonzero_symbols(wts), checks)

(***************************************************************************)
(* PrefixCode: src/huffman/prefix_code.rs                                  *)
(* A PrefixCode is a record [num_symbols, lengths]; lengths[L + 1] is the  *)
(* bucket of the symbols of code length L.  A usize that has wrapped below *)
(* zero (in a build without overflow checks) is the negative number        *)
(* congruent to it modulo 2^64.                                            *)
(***************************************************************************)
PREFIX_CODE_MAX_BITS == 32

\* PrefixCode::new: returns [code, ok].
PrefixCode_new(num_symbols, lengths) ==
    [code |-> [num_symbols |-> num_symbols, lengths |-> lengths],
     ok |-> Len(lengths) <= PREFIX_CODE_MAX_BITS]

\* a > b for a usize a that may have wrapped and a usize b that has not.
GtUsize(a, b) == a < 0 \/ a > b

weight_delta(lengths, num, higher, lower) ==
    (num * (2 ^ ((Len(lengths) - 1) - higher))) - (num * (2 ^ ((Len(lengths) - 1) - lower)))

RECURSIVE adjust_moves(_, _, _, _, _, _)
\* while *delta > total_adjust && !self.lengths[level].is_empty() { ... }:
\* returns [lengths, delta, ok].
adjust_moves(lengths, delta, level, total_adjust, adjustment, checks) ==
    IF GtUsize(delta, total_adjust) /\ Len(At(lengths, level)) > 0
    THEN IF delta >= 0 /\ delta < adjustment /\ checks
         THEN [lengths |-> lengths, delta |-> delta, ok |-> FALSE]
         ELSE adjust_moves([lengths EXCEPT
                               ![level + 1] = SubSeq(@, 1, Len(@) - 1),
                               ![level + 2] = Append(@, At(lengths, level)[Len(At(lengths, level))])],
                           delta - adjustment, level, total_adjust, adjustment, checks)
    ELSE [lengths |-> lengths, delta |-> delta, ok |-> TRUE]

\* adjust that moves no symbol at its level.
adjust_level_NoMoves(r, level, total_adjust, checks) == r

\* The second half of adjust: r = [lengths, delta, ok] is the state after the recursion.
adjust_level(r, level, total_adjust, checks) ==
    IF r.ok /\ GtUsize(r.delta, 0)
    THEN adjust_moves(r.lengths, r.delta, level, total_adjust,
                      weight_delta(r.lengths, 1, level, level + 1), checks)
    ELSE r

RECURSIVE adjust(_, _, _, _, _, _)
\* Returns [lengths, delta, ok]; ok is FALSE when the assertion fails or the
\* subtraction overflows in a build that checks.
adjust(lengths, level, max_len, total_adjust, delta, checks) ==
    LET new_total_adjust ==
            total_adjust + weight_delta(lengths, Len(At(lengths, level)), level, max_len)
    IN  IF new_total_adjust < delta
        THEN IF level > 0
             THEN adjust_level(adjust(lengths, level - 1, max_len, new_total_adjust, delta, checks),
                               level, total_adjust, checks)
             ELSE [lengths |-> lengths, delta |-> delta, ok |-> FALSE]
        ELSE adjust_level([lengths |-> lengths, delta |-> delta, ok |-> TRUE],
                          level, total_adjust, checks)

RECURSIVE collapse_delta(_, _, _)
\* The sum `delta` of the first loop of apply_max_length_limit, from `level` on.
collapse_delta(lengths, max_len, level) ==
    IF level >= Len(lengths) THEN 0
    ELSE weight_delta(lengths, Len(At(lengths, level)), max_len, level)
         + collapse_delta(lengths, max_len, level + 1)

RECURSIVE collapse_symbols(_, _)
\* The symbols of the buckets from `level` on, in order.
collapse_symbols(lengths, level) ==
    IF level >= Len(lengths) THEN <<>>
    ELSE At(lengths, level) \o collapse_symbols(lengths, level + 1)

\* `lengths` after the first loop of apply_max_length_limit: the longer buckets taken
\* and appended to bucket max_len.
collapse(lengths, max_len) ==
    AsSeq([L \in 1..Len(lengths) |->
              IF L - 1 < max_len THEN lengths[L]
              ELSE IF L - 1 = max_len THEN collapse_symbols(lengths, max_len)
              ELSE <<>>])

\* The end of apply_max_length_limit: the assertion and the truncation.
limit_result(code, r, max_len) ==
    [code |-> [code EXCEPT !.lengths = SubSeq(r.lengths, 1, max_len + 1)],
     ok |-> r.ok /\ r.delta = 0]

\* apply_max_length_limit without its rebalancing and its assertions: the longer
\* buckets are moved to max_len and the code is returned.
apply_max_length_limit_NoRebalance(code, max_len, checks) ==
    IF max_len >= Len(code.lengths) - 1 THEN [code |-> code, ok |-> TRUE]
    ELSE [code |-> [code EXCEPT !.lengths = SubSeq(collapse(code.lengths, max_len), 1, max_len + 1)],
          ok |-> TRUE]

\* Returns [code, ok]; ok is FALSE when apply_max_length_limit panics.
apply_max_length_limit(code, max_len, checks) ==
    IF max_len >= Len(code.lengths) - 1 THEN [code |-> code, ok |-> TRUE]
    ELSE IF max_len = 0 THEN [code |-> code, ok |-> FALSE]
    ELSE limit_result(code,
                      adjust(collapse(code.lengths, max_len), max_len - 1, max_len, 0,
                             collapse_delta(code.lengths, max_len, max_len + 1), checks),
                      max_len)

\* CodeType::BITS
CODE_TYPE_BITS == 32

\* SymbolType::BITS
SYMBOL_TYPE_BITS == 16

RECURSIVE encoder_table_symbols(_, _, _, _, _)
\* for &symbol in self.lengths[i].iter() { codes[symbol] = (code, i); code += 1 }
\* from the k-th symbol of the bucket on: returns [codes, code, ok].
encoder_table_symbols(codes, code, bucket, i, k) ==
    IF k > Len(bucket) THEN [codes |-> codes, code |-> code, ok |-> TRUE]
    ELSE IF bucket[k] >= Len(codes) THEN [codes |-> codes, code |-> code, ok |-> FALSE]
    ELSE encoder_table_symbols([codes EXCEPT ![bucket[k] + 1] = [code |-> code, len |-> i]],
                               code + 1, bucket, i, k + 1)

RECURSIVE encoder_table_levels(_, _, _)
RECURSIVE encoder_table_shift(_, _, _)
\* code <<= 1 after the bucket i gave r = [codes, code, ok], then the next bucket.
encoder_table_shift(r, lengths, i) ==
    IF ~r.ok THEN [codes |-> r.codes, ok |-> FALSE]
    ELSE encoder_table_levels([codes |-> r.codes, code |-> 2 * r.code], lengths, i + 1)

\* for i in i..self.lengths.len(): returns [codes, ok].
encoder_table_levels(t, lengths, i) ==
    IF i >= Len(lengths) THEN [codes |-> t.codes, ok |-> TRUE]
    ELSE encoder_table_shift(encoder_table_symbols(t.codes, t.code, At(lengths, i), i, 1),
                             lengths, i)

\* The encoder table with the counter starting at 1.
generate_encoder_table_FromOne(code) ==
    encoder_table_levels([codes |-> AsSeq([s \in 1..code.num_symbols |->
                                             [code |-> 0, len |-> 0]]),
                          code |-> 1],
                         code.lengths, 1)

\* Returns [codes, ok]: codes[s + 1] is the (code, len) of symbol s; ok is FALSE when
\* the assertion fails or a symbol indexes past the table.  The codes of the model
\* are shorter than 30 bits.
generate_encoder_table(code) ==
    IF ~(Len(code.lengths) <= CODE_TYPE_BITS) THEN [codes |-> <<>>, ok |-> FALSE]
    ELSE encoder_table_levels([codes |-> AsSeq([s \in 1..code.num_symbols |->
                                                   [code |-> 0, len |-> 0]]),
                               code |-> 0],
                              code.lengths, 1)

RECURSIVE write_symbols(_, _, _)
\* for &symbol in symbols.iter() { bit_writer.write_bits(symbol as u64, 16) } from the k-th on
write_symbols(bw, symbols, k) ==
    IF k > Len(symbols) THEN bw
    ELSE write_symbols(BitWriter_write_bits(bw, ToWord(symbols[k]), SYMBOL_TYPE_BITS), symbols, k + 1)

\* The code length i (32 bits) and the number of symbols (16 bits) of a bucket.
write_bucket_header(bw, i, num) ==
    BitWriter_write_bits(BitWriter_write_bits(bw, ToWord(i), 32), ToWord(num), SYMBOL_TYPE_BITS)

RECURSIVE write_buckets(_, _, _)
\* for i in i..self.lengths.len(): the non-empty buckets.
write_buckets(bw, lengths, i) ==
    IF i >= Len(lengths) THEN bw
    ELSE IF Len(At(lengths, i)) = 0 THEN write_buckets(bw, lengths, i + 1)
    ELSE write_buckets(write_symbols(write_bucket_header(bw, i, Len(At(lengths, i))),
                                     At(lengths, i), 1),
                       lengths, i + 1)

\* Returns the writer.
encode_coding_table(code, bw) ==
    BitWriter_write_bits(
        write_buckets(BitWriter_write_bits(bw, ToWord(code.num_symbols), SYMBOL_TYPE_BITS),
                      code.lengths, 1),
        ZeroWord, 32)

\* A u64 as usize where it is compared with small numbers: a value of 2^30 or more
\* is given as 2^30.
AsUsize(w) == IF \E i \in 1..(WORD_BITS - 30) : w[i] = 1 THEN 2 ^ 30 ELSE LowBits(w, 30)

RECURSIVE read_symbols(_, _, _)
RECURSIVE read_symbols_push(_, _, _)
\* symbols.push(bit_reader.read_bits(16) as SymbolType) given the read rd, then the rest
read_symbols_push(rd, symbols, num) ==
    read_symbols(rd.br, Append(symbols, LowBits(rd.result, SYMBOL_TYPE_BITS)), num - 1)

\* for _ in 0..num { ... }: num more symbols; returns [br, symbols].
read_symbols(br, symbols, num) ==
    IF num = 0 THEN [br |-> br, symbols |-> symbols]
    ELSE read_symbols_push(BitReader_read_bits(br, SYMBOL_TYPE_BITS), symbols, num)

RECURSIVE decode_table_loop(_, _)
RECURSIVE decode_table_len(_, _)
RECURSIVE decode_table_num(_, _)
RECURSIVE decode_table_bucket(_, _)
\* lengths.push(symbols), then the next iteration
decode_table_bucket(rs, lengths) == decode_table_loop(rs.br, Append(lengths, rs.symbols))

\* The symbols of a bucket given the read rd of their number.
decode_table_num(rd, lengths) ==
    decode_table_bucket(read_symbols(rd.br, <<>>, LowBits(rd.result, SYMBOL_TYPE_BITS)), lengths)

\* The body of the loop rejecting a length that is the number of buckets read.
decode_table_len_NotNext(rd, lengths) ==
    IF AsUsize(rd.result) = 0 THEN [br |-> rd.br, lengths |-> lengths, err |-> FALSE]
    ELSE IF AsUsize(rd.result) <= Len(lengths) \/ AsUsize(rd.result) > PREFIX_CODE_MAX_BITS
         THEN [br |-> rd.br, lengths |-> lengths, err |-> TRUE]
         ELSE decode_table_num(BitReader_read_bits(rd.br, SYMBOL_TYPE_BITS),
                               pad_lengths(lengths, AsUsize(rd.result) - 1))

\* The body of the loop given the read rd of the code length.
decode_table_len(rd, lengths) ==
    LET len == AsUsize(rd.result)
    IN  IF len = 0 THEN [br |-> rd.br, lengths |-> lengths, err |-> FALSE]
        ELSE IF len < Len(lengths) \/ len > PREFIX_CODE_MAX_BITS
             THEN [br |-> rd.br, lengths |-> lengths, err |-> TRUE]
             ELSE decode_table_num(BitReader_read_bits(rd.br, SYMBOL_TYPE_BITS),
                                   pad_lengths(lengths, len - 1))

\* loop { ... } of decode_coding_table: returns [br, lengths, err].
decode_table_loop(br, lengths) == decode_table_len(BitReader_read_bits(br, 32), lengths)

\* The result of decode_coding_table without the check of the reader's errors.
decode_table_result_NoErrorCheck(num_symbols, r) ==
    [br |-> r.br, code |-> [num_symbols |-> num_symbols, lengths |-> r.lengths], err |-> r.err]

\* The result of decode_coding_table given num_symbols and the loop's result r.
decode_table_result(num_symbols, r) ==
    [br |-> r.br,
     code |-> [num_symbols |-> num_symbols, lengths |-> r.lengths],
     err |-> r.err \/ r.br.num_read_errors > 0]

\* decode_coding_table given the read rd of num_symbols.
decode_table_start(rd) ==
    decode_table_result(LowBits(rd.result, SYMBOL_TYPE_BITS), decode_table_loop(rd.br, << <<>> >>))

\* Returns [br, code, err]; err is TRUE when it returns Err.
decode_coding_table(br) == decode_table_start(BitReader_read_bits(br, SYMBOL_TYPE_BITS))

DECODE_TABLE_BITS == 6

MAX_SECONDARY_TABLE_BITS == 4

\* SymbolType::MAX
SLOW_DECODE_SYMBOL == 65535

Min(a, b) == IF a < b THEN a ELSE b

\* n copies of x
Repeat(x, n) == AsSeq([k \in 1..n |-> x])

\* Every symbol of the bucket `multiples` times, in order.
Replicate(bucket, multiples) ==
    AsSeq([k \in 1..(Len(bucket) * multiples) |-> bucket[((k - 1) \div multiples) + 1]])

\* code_table.resize(new_len, value)
Resize(code_table, new_len, value) ==
    IF new_len <= Len(code_table) THEN SubSeq(code_table, 1, new_len)
    ELSE code_table \o Repeat(value, new_len - Len(code_table))

RECURSIVE primary_levels(_, _, _)
\* for i in i..(DECODE_TABLE_BITS + 1).min(self.lengths.len())
primary_levels(code_table, lengths, i) ==
    IF i >= Min(DECODE_TABLE_BITS + 1, Len(lengths)) THEN code_table
    ELSE primary_levels(code_table \o Replicate(At(lengths, i), 2 ^ (DECODE_TABLE_BITS - i)),
                        lengths, i + 1)

\* if sec_pos & sec_table_mask == 0 { code_table[pos] = ...; pos += 1; sec_pos = 0 }
\* on t = [code_table, pos, sec_pos, ok]
secondary_link(t, num_symbols, sec_bits) ==
    IF t.sec_pos % (2 ^ sec_bits) # 0 THEN t
    ELSE IF t.pos >= Len(t.code_table) THEN [t EXCEPT !.ok = FALSE]
    ELSE [t EXCEPT !.code_table[t.pos + 1] = num_symbols + Len(t.code_table),
                   !.pos = @ + 1,
                   !.sec_pos = 0]

\* for _ in 0..multiples { code_table.push(symbol) }; sec_pos += multiples
secondary_push(t, symbol, multiples) ==
    [t EXCEPT !.code_table = @ \o Repeat(symbol, multiples), !.sec_pos = @ + multiples]

RECURSIVE secondary_symbols(_, _, _, _, _, _)
\* for &symbol in symbols.iter() { ... } from the k-th symbol of the bucket on
secondary_symbols(t, bucket, multiples, num_symbols, sec_bits, k) ==
    IF k > Len(bucket) \/ ~t.ok THEN t
    ELSE secondary_symbols(secondary_push(secondary_link(t, num_symbols, sec_bits),
                                          bucket[k], multiples),
                           bucket, multiples, num_symbols, sec_bits, k + 1)

RECURSIVE secondary_levels(_, _, _, _, _)
\* for len in len..DECODE_TABLE_BITS + secondary_table_bits + 1
secondary_levels(t, lengths, num_symbols, sec_bits, len) ==
    IF len >= DECODE_TABLE_BITS + sec_bits + 1 THEN t
    ELSE secondary_levels(secondary_symbols(t, At(lengths, len),
                                            2 ^ (DECODE_TABLE_BITS + sec_bits - len),
                                            num_symbols, sec_bits, 1),
                          lengths, num_symbols, sec_bits, len + 1)

\* if sec_pos > 0 { code_table.resize(len + (1 << secondary_table_bits) - sec_pos, SLOW) }
slow_fill_secondary(t, sec_bits) ==
    IF t.sec_pos > 0
    THEN [t EXCEPT !.code_table = Resize(@, Len(@) + (2 ^ sec_bits) - t.sec_pos,
                                         SLOW_DECODE_SYMBOL)]
    ELSE t

\* if pos < (1 << DECODE_TABLE_BITS) { while ... { code_table[pos] = ...; pos += 1 }
\* code_table.resize(len + (1 << secondary_table_bits), SLOW) }
slow_fill_primary(t, num_symbols, sec_bits) ==
    IF t.pos < 2 ^ DECODE_TABLE_BITS
    THEN [t EXCEPT !.code_table =
                        AsSeq([k \in 1..Len(@) |->
                                  IF k - 1 >= t.pos /\ k - 1 < 2 ^ DECODE_TABLE_BITS
                                  THEN num_symbols + Len(@) ELSE @[k]])
                        \o Repeat(SLOW_DECODE_SYMBOL, 2 ^ sec_bits),
                   !.pos = 2 ^ DECODE_TABLE_BITS]
    ELSE t

RECURSIVE slow_decode_entries(_, _, _, _)
\* for i in i..self.lengths.len(): the SlowDecode entries [length, symbols, base].
slow_decode_entries(lengths, sec_bits, i, code) ==
    IF i >= Len(lengths) THEN <<>>
    ELSE (IF Len(At(lengths, i)) > 0 /\ i > DECODE_TABLE_BITS + sec_bits
          THEN <<[length |-> i, symbols |-> At(lengths, i), base |-> code]>>
          ELSE <<>>)
         \o slow_decode_entries(lengths, sec_bits, i + 1, (code + Len(At(lengths, i))) * 2)

RECURSIVE code_lengths_symbols(_, _, _, _)
\* for &symbol in self.lengths[i].iter() { code_lengths[symbol] = i } from the k-th on:
\* returns [table, ok].
code_lengths_symbols(r, bucket, i, k) ==
    IF k > Len(bucket) \/ ~r.ok THEN r
    ELSE IF bucket[k] >= Len(r.table) THEN [r EXCEPT !.ok = FALSE]
    ELSE code_lengths_symbols([r EXCEPT !.table[bucket[k] + 1] = i], bucket, i, k + 1)

RECURSIVE code_lengths_levels(_, _, _)
\* for i in i..self.lengths.len()
code_lengths_levels(r, lengths, i) ==
    IF i >= Len(lengths) THEN r
    ELSE code_lengths_levels(code_lengths_symbols(r, At(lengths, i), i, 1), lengths, i + 1)

\* Returns [table, ok]: table[s + 1] is the code length of symbol s.
code_lengths(code) ==
    code_lengths_levels([table |-> Repeat(0, code.num_symbols), ok |-> TRUE], code.lengths, 0)

\* PrefixDecoder::new with the tables built: t = [code_table, pos, sec_pos, ok],
\* cl = [table, ok].  Returns [decoder, ok].
PrefixDecoder_new(num_symbols, sec_bits, t, cl, slow_decode_table) ==
    [decoder |-> [num_symbols |-> num_symbols,
                  secondary_table_bits |-> sec_bits,
                  code_table |-> t.code_table,
                  code_lengths |-> cl.table,
                  slow_decode_table |-> slow_decode_table],
     ok |-> t.ok /\ cl.ok]

\* The slow path with the code counter of the slow decode table started at 1.
decoder_with_slow_path_BaseFromOne(code, sec_bits, t) ==
    IF t.ok /\ Len(code.lengths) > DECODE_TABLE_BITS + sec_bits + 1
    THEN PrefixDecoder_new(code.num_symbols, sec_bits,
                           slow_fill_primary(slow_fill_secondary(t, sec_bits),
                                             code.num_symbols, sec_bits),
                           code_lengths(code),
                           slow_decode_entries(code.lengths, sec_bits, 1, 1))
    ELSE PrefixDecoder_new(code.num_symbols, sec_bits, t, code_lengths(code), <<>>)

\* The slow path set up when the longest code exceeds both tables.
decoder_with_slow_path(code, sec_bits, t) ==
    IF t.ok /\ Len(code.lengths) > DECODE_TABLE_BITS + sec_bits + 1
    THEN PrefixDecoder_new(code.num_symbols, sec_bits,
                           slow_fill_primary(slow_fill_secondary(t, sec_bits),
                                             code.num_symbols, sec_bits),
                           code_lengths(code),
                           slow_decode_entries(code.lengths, sec_bits, 1, 0))
    ELSE PrefixDecoder_new(code.num_symbols, sec_bits, t, code_lengths(code), <<>>)

\* The secondary table built after the primary table code_table.
decoder_with_secondary(code, code_table, sec_bits) ==
    decoder_with_slow_path(code, sec_bits,
        secondary_levels([code_table |-> Resize(code_table, 2 ^ DECODE_TABLE_BITS, 0),
                          pos |-> Len(code_table), sec_pos |-> 0, ok |-> TRUE],
                         code.lengths, code.num_symbols, sec_bits, DECODE_TABLE_BITS + 1))

\* generate_decoder with the secondary tables capped one bit lower.
decoder_from_primary_SmallerCap(code, code_table) ==
    IF Len(code.lengths) > DECODE_TABLE_BITS
    THEN decoder_with_secondary(code, code_table,
             Min(Len(code.lengths) - 1 - DECODE_TABLE_BITS, MAX_SECONDARY_TABLE_BITS - 1))
    ELSE PrefixDecoder_new(code.num_symbols, 0,
                           [code_table |-> code_table, pos |-> 0, sec_pos |-> 0, ok |-> TRUE],
                           code_lengths(code), <<>>)

\* generate_decoder given the primary table code_table.
decoder_from_primary(code, code_table) ==
    IF Len(code.lengths) > DECODE_TABLE_BITS
    THEN decoder_with_secondary(code, code_table,
             Min(Len(code.lengths) - 1 - DECODE_TABLE_BITS, MAX_SECONDARY_TABLE_BITS))
    ELSE PrefixDecoder_new(code.num_symbols, 0,
                           [code_table |-> code_table, pos |-> 0, sec_pos |-> 0, ok |-> TRUE],
                           code_lengths(code), <<>>)

\* Returns [decoder, ok]; ok is FALSE when an index is past its table.
generate_decoder(code) == decoder_from_primary(code, primary_levels(<<>>, code.lengths, 1))

\* bit_reader.consume(self.code_lengths[symbol]); return symbol
decode_symbol(d, br, symbol) ==
    [br |-> BitReader_consume(br, d.code_lengths[symbol + 1]), symbol |-> symbol, ok |-> TRUE]

RECURSIVE decode_slow(_, _, _, _)
\* for decode in self.slow_decode_table.iter() { ... } from the k-th entry on, then
\* the panic.  The codes of the model are shorter than 30 bits.
decode_slow(d, br, k, checks) ==
    IF k > Len(d.slow_decode_table) THEN [br |-> br, symbol |-> 0, ok |-> FALSE]
    ELSE LET entry == d.slow_decode_table[k]
             shifted_data == LowBits(Shr(br.data, WORD_BITS - entry.length), entry.length)
         IN  IF shifted_data < entry.base
             THEN IF checks THEN [br |-> br, symbol |-> 0, ok |-> FALSE]
                  ELSE decode_slow(d, br, k + 1, checks)
             ELSE IF shifted_data - entry.base < Len(entry.symbols)
             THEN [br |-> BitReader_consume(br, entry.length),
                   symbol |-> entry.symbols[shifted_data - entry.base + 1],
                   ok |-> TRUE]
             ELSE decode_slow(d, br, k + 1, checks)

\* The secondary index taken from the leading bits of the peek word.
secondary_index_NoShift(d, peek_data, checks) ==
    [index |-> LowBits(Shr(peek_data, WORD_BITS - d.secondary_table_bits),
                       d.secondary_table_bits),
     ok |-> TRUE]

\* ((peek_data << DECODE_TABLE_BITS) >> (64 - self.secondary_table_bits)) as usize:
\* returns [index, ok].  A shift by 64 panics in a build that checks and shifts by 0
\* otherwise.
secondary_index(d, peek_data, checks) ==
    IF d.secondary_table_bits = 0
    THEN [index |-> AsUsize(Shl(peek_data, DECODE_TABLE_BITS)), ok |-> ~checks]
    ELSE [index |-> LowBits(Shr(Shl(peek_data, DECODE_TABLE_BITS),
                                WORD_BITS - d.secondary_table_bits),
                            d.secondary_table_bits),
          ok |-> TRUE]

\* The secondary lookup at `index` of the code table, then the slow path.
decode_secondary_at(d, br, index, checks) ==
    IF index >= Len(d.code_table) THEN [br |-> br, symbol |-> 0, ok |-> FALSE]
    ELSE IF At(d.code_table, index) < d.num_symbols
         THEN decode_symbol(d, br, At(d.code_table, index))
         ELSE decode_slow(d, br, 1, checks)

\* The secondary lookup given the link `symbol` of the primary table.
decode_secondary(d, br, symbol, si, checks) ==
    IF ~si.ok THEN [br |-> br, symbol |-> 0, ok |-> FALSE]
    ELSE decode_secondary_at(d, br, (symbol - d.num_symbols) + si.index, checks)

\* The primary lookup at `index` of the code table.
decode_primary(d, br, index, checks) ==
    IF index >= Len(d.code_table) THEN [br |-> br, symbol |-> 0, ok |-> FALSE]
    ELSE IF At(d.code_table, index) < d.num_symbols
         THEN decode_symbol(d, br, At(d.code_table, index))
         ELSE decode_secondary(d, br, At(d.code_table, index),
                               secondary_index(d, br.data, checks), checks)

\* decode after the reader was filled.
decode_peek(d, br, checks) ==
    decode_primary(d, br, LowBits(Shr(br.data, WORD_BITS - DECODE_TABLE_BITS), DECODE_TABLE_BITS),
                   checks)

\* PrefixDecoder::decode: returns [br, symbol, ok]; ok is FALSE when it panics.
PrefixDecoder_decode(d, br, checks) ==
    decode_peek(d, IF br.bits_avail < PREFIX_CODE_MAX_BITS THEN BitReader_fill_data(br) ELSE br,
                checks)

\* The PrefixCode of the length buckets r = [lengths, ok] that build_from_weights gave.
build_code(num_symbols, r) ==
    IF r.ok THEN PrefixCode_new(num_symbols, r.lengths)
    ELSE [code |-> [num_symbols |-> num_symbols, lengths |-> <<>>], ok |-> FALSE]

\* build_from_weights as encode_loop uses it, returning a PrefixCode: returns [code, ok].
StaticHuffman_build(num_symbols, wts, checks) ==
    build_code(num_symbols, build_from_weights(num_symbols, wts, checks))

(***************************************************************************)
(* The adaptive machine: a DynamicHuffman encodes a sequence of symbols    *)
(* into a BitWriter, the writer is finished, and a second DynamicHuffman   *)
(* decodes the bytes through a BitReader, as tests::test_encode_decode     *)
(* does.                                                                   *)
(***************************************************************************)
IsVirgin(h) == Len(h.nodes) = h.num_symbols + 2

\* The symbols added since the tree was last virgin, after coding symbol s.
SeenAfter(seen, h, s) == IF IsVirgin(h) THEN {} ELSE seen \cup {s}

\* The static variables are not used by the adaptive machines.
StaticUnused ==
    /\ weights = <<>>
    /\ overflow_checks = FALSE
    /\ prefix_code = <<>>
    /\ max_length = 0
    /\ encoder_table = <<>>
    /\ decoder = <<>>
    /\ input_len = 0

DynInit ==
    /\ pc = "encode"
    /\ enc = DynamicHuffman_new(DynNumSymbols)
    /\ dec = DynamicHuffman_new(DynNumSymbols)
    /\ bitw = BitWriter_new
    /\ bitr = BitReader_new(<<>>)
    /\ sent = <<>>
    /\ recv = <<>>
    /\ encHist = <<>>
    /\ encSeen = {}
    /\ decSeen = {}
    /\ buffer = <<>>
    /\ written = <<>>
    /\ input = <<>>
    /\ StaticUnused

\* huffman.encode(symbol, &mut writer)
DynEncode(symbol) ==
    /\ pc = "encode"
    /\ Len(sent) < MaxSyms
    /\ \E r \in {DynamicHuffman_encode(enc, symbol, bitw)} :
           /\ enc' = r.h
           /\ bitw' = r.bw
           /\ pc' = IF r.ok THEN "encode" ELSE "panic"
           /\ encHist' = Append(encHist, r.h.nodes)
           /\ encSeen' = SeenAfter(encSeen, r.h, symbol)
    /\ sent' = Append(sent, symbol)
    /\ UNCHANGED <<dec, bitr, recv, decSeen, buffer, written, input>>
    /\ UNCHANGED staticVars

\* writer.finish(); BitReader::new over the bytes written
DynFinish ==
    /\ pc = "encode"
    /\ bitw' = BitWriter_finish(bitw)
    /\ bitr' = BitReader_new(bitw'.out)
    /\ pc' = "decode"
    /\ UNCHANGED <<enc, dec, sent, recv, encHist, encSeen, decSeen, buffer, written, input>>
    /\ UNCHANGED staticVars

\* huffman.decode(&mut reader)
DynDecode ==
    /\ pc = "decode"
    /\ Len(recv) < Len(sent)
    /\ \E r \in {DynamicHuffman_decode(dec, bitr)} :
           /\ dec' = r.h
           /\ bitr' = r.br
           /\ recv' = Append(recv, r.symbol)
           /\ pc' = IF r.ok THEN "decode" ELSE "panic"
           /\ decSeen' = SeenAfter(decSeen, r.h, r.symbol)
    /\ UNCHANGED <<enc, bitw, sent, encHist, encSeen, buffer, written, input>>
    /\ UNCHANGED staticVars

DynNext ==
    \/ \E symbol \in 0..(DynNumSymbols - 1) : DynEncode(symbol)
    \/ DynFinish
    \/ DynDecode

SpecDyn == DynInit /\ [][DynNext]_vars

(***************************************************************************)
(* The adaptive codec: src/coding/dynamic_huffman_coding.rs                *)
(* DynamicHuffmanEncoder::encode_loop and DynamicHuffmanDecoder::          *)
(* decode_loop, one loop iteration per step, on a fresh encoder and a      *)
(* fresh decoder.  The end marker (256 in the source) is the last symbol   *)
(* of the alphabet; the byte values are the symbols below it.              *)
(***************************************************************************)
READ_BUFFER_SIZE == 8192

END_OF_STREAM == CodecNumSymbols - 1

CodecInit ==
    /\ pc = "encode"
    /\ enc = DynamicHuffman_new(CodecNumSymbols)
    /\ dec = DynamicHuffman_new(CodecNumSymbols)
    /\ bitw = BitWriter_new
    /\ bitr = BitReader_new(<<>>)
    /\ sent = <<>>
    /\ recv = <<>>
    /\ encHist = <<>>
    /\ encSeen = {}
    /\ decSeen = {}
    /\ buffer = <<>>
    /\ written = <<>>
    /\ input = <<>>
    /\ StaticUnused

\* encode_loop: one byte of the source: huffman.encode(symbol as u16, ..)
CodecEncodeByte(symbol) ==
    /\ pc = "encode"
    /\ Len(input) < CodecMaxBytes
    /\ \E r \in {DynamicHuffman_encode(enc, symbol, bitw)} :
           /\ enc' = r.h
           /\ bitw' = r.bw
           /\ pc' = IF r.ok THEN "encode" ELSE "panic"
           /\ encHist' = Append(encHist, r.h.nodes)
           /\ encSeen' = SeenAfter(encSeen, r.h, symbol)
    /\ sent' = Append(sent, symbol)
    /\ input' = Append(input, symbol)
    /\ UNCHANGED <<dec, bitr, recv, decSeen, buffer, written>>
    /\ UNCHANGED staticVars

\* encode_loop at the end of the source: the end marker, then bit_writer.finish();
\* the bytes written are the decoder's source.
CodecEncodeEnd ==
    /\ pc = "encode"
    /\ \E r \in {DynamicHuffman_encode(enc, END_OF_STREAM, bitw)} :
           /\ enc' = r.h
           /\ bitw' = BitWriter_finish(r.bw)
           /\ pc' = IF r.ok THEN "decode" ELSE "panic"
           /\ encHist' = Append(encHist, r.h.nodes)
           /\ encSeen' = SeenAfter(encSeen, r.h, END_OF_STREAM)
    /\ bitr' = BitReader_new(bitw'.out)
    /\ sent' = Append(sent, END_OF_STREAM)
    /\ UNCHANGED <<dec, recv, decSeen, buffer, written, input>>
    /\ UNCHANGED staticVars

\* decode_loop: one iteration.  The step is disabled once as many symbols were
\* decoded as the model's longest stream holds.
CodecDecode ==
    /\ pc = "decode"
    /\ Len(recv) <= CodecMaxBytes + 1
    /\ \E r \in {DynamicHuffman_decode(dec, bitr)} :
           /\ dec' = r.h
           /\ recv' = Append(recv, r.symbol)
           /\ decSeen' = SeenAfter(decSeen, r.h, r.symbol)
           /\ IF ~r.ok
              THEN pc' = "panic" /\ bitr' = r.br /\ UNCHANGED <<buffer, written>>
              ELSE IF r.symbol = END_OF_STREAM
              THEN /\ pc' = "done"
                   /\ bitr' = BitReader_finish(r.br)
                   /\ written' = written \o buffer
                   /\ buffer' = <<>>
              ELSE /\ pc' = "decode"
                   /\ bitr' = r.br
                   /\ LET buffer1 == Append(buffer, r.symbol % 256)
                      IN  IF Len(buffer1) = READ_BUFFER_SIZE
                          THEN written' = written \o buffer1 /\ buffer' = <<>>
                          ELSE buffer' = buffer1 /\ UNCHANGED written
    /\ UNCHANGED <<enc, bitw, sent, encHist, encSeen, input>>
    /\ UNCHANGED staticVars

CodecNext ==
    \/ \E symbol \in 0..(END_OF_STREAM - 1) : CodecEncodeByte(symbol)
    \/ CodecEncodeEnd
    \/ CodecDecode

SpecCodec == CodecInit /\ [][CodecNext]_vars

(***************************************************************************)
(* The static builder machine: StaticHuffman::build_from_weights on a      *)
(* weight vector, then PrefixCode::apply_max_length_limit on the code      *)
(* built, as the tests of static_huffman.rs and prefix_code.rs call them.  *)
(***************************************************************************)
\* The variables of the bit streams and of the codecs' loops.
streamVars == <<bitw, bitr, sent, recv, buffer, written, input>>

\* The variables the static builder machine does not use.
BuilderUnused ==
    /\ enc = <<>> /\ dec = <<>> /\ encHist = <<>> /\ encSeen = {} /\ decSeen = {}
    /\ bitw = BitWriter_new
    /\ bitr = BitReader_new(<<>>)
    /\ sent = <<>> /\ recv = <<>> /\ buffer = <<>> /\ written = <<>> /\ input = <<>>
    /\ encoder_table = <<>>
    /\ decoder = <<>>
    /\ input_len = 0

\* Every weight vector of BuildNumSymbols weights of the model's WeightType.
BuildInit ==
    /\ pc = "start"
    /\ weights \in [1..BuildNumSymbols -> 0..(WEIGHT_MODULUS - 1)]
    /\ overflow_checks \in BOOLEAN
    /\ prefix_code = [num_symbols |-> BuildNumSymbols, lengths |-> <<>>]
    /\ max_length = 0
    /\ BuilderUnused

\* Every weight vector of LimitNumSymbols weights up to LimitMaxWeight.
LimitInit ==
    /\ pc = "start"
    /\ weights \in [1..LimitNumSymbols -> 0..LimitMaxWeight]
    /\ overflow_checks \in BOOLEAN
    /\ prefix_code = [num_symbols |-> LimitNumSymbols, lengths |-> <<>>]
    /\ max_length = 0
    /\ BuilderUnused

\* StaticHuffman::new(num_symbols).build_from_weights(&weights)
BuildFromWeights ==
    /\ pc = "start"
    /\ \E r \in {build_from_weights(Len(weights), weights, overflow_checks)} :
           /\ prefix_code' = [num_symbols |-> Len(weights), lengths |-> r.lengths]
           /\ pc' = IF r.ok THEN "built" ELSE "build_panic"
    /\ UNCHANGED <<weights, overflow_checks, max_length, encoder_table, decoder, input_len>>
    /\ UNCHANGED treeVars
    /\ UNCHANGED streamVars

\* apply_max_length_limit(M) on the code built
ApplyMaxLengthLimit(M) ==
    /\ pc = "built"
    /\ \E r \in {apply_max_length_limit(prefix_code, M, overflow_checks)} :
           /\ prefix_code' = r.code
           /\ pc' = IF r.ok THEN "limited" ELSE "limit_panic"
    /\ max_length' = M
    /\ UNCHANGED <<weights, overflow_checks, encoder_table, decoder, input_len>>
    /\ UNCHANGED treeVars
    /\ UNCHANGED streamVars

BuildNext == BuildFromWeights

SpecBuild == BuildInit /\ [][BuildNext]_vars

LimitNext ==
    \/ BuildFromWeights
    \/ \E M \in 0..(LimitNumSymbols - 1) : ApplyMaxLengthLimit(M)

SpecLimit == LimitInit /\ [][LimitNext]_vars

(***************************************************************************)
(* The scenario machine: build_from_weights on the weight vector of the    *)
(* spec's scenario S5, or on one of its rotations, then                    *)
(* apply_max_length_limit(M) for M from 3 to ScenarioMaxLimit.             *)
(* src/huffman/static_huffman.rs, src/huffman/prefix_code.rs               *)
(***************************************************************************)
ScenarioWeights == <<1, 3, 0, 10, 9, 8, 6, 0, 7, 5, 4, 2>>

\* The vector wts rotated left by k places.
Rotate(wts, k) == AsSeq([i \in 1..Len(wts) |-> wts[((i - 1 + k) % Len(wts)) + 1]])

ScenarioInit ==
    /\ pc = "scenario"
    /\ weights \in {Rotate(ScenarioWeights, k) : k \in 0..(Len(ScenarioWeights) - 1)}
    /\ overflow_checks \in BOOLEAN
    /\ prefix_code = [num_symbols |-> Len(ScenarioWeights), lengths |-> <<>>]
    /\ max_length = 0
    /\ BuilderUnused

\* StaticHuffman::new(12).build_from_weights(&weights)
ScenarioBuild ==
    /\ pc = "scenario"
    /\ \E r \in {build_from_weights(Len(weights), weights, overflow_checks)} :
           /\ prefix_code' = [num_symbols |-> Len(weights), lengths |-> r.lengths]
           /\ pc' = IF r.ok THEN "scenario_built" ELSE "scenario_panic"
    /\ UNCHANGED <<weights, overflow_checks, max_length, encoder_table, decoder, input_len>>
    /\ UNCHANGED treeVars
    /\ UNCHANGED streamVars

\* apply_max_length_limit(M) on a copy of the code built
ScenarioLimit(M) ==
    /\ pc = "scenario_built"
    /\ \E r \in {apply_max_length_limit(prefix_code, M, overflow_checks)} :
           /\ prefix_code' = r.code
           /\ pc' = IF r.ok THEN "scenario_limited" ELSE "scenario_panic"
    /\ max_length' = M
    /\ UNCHANGED <<weights, overflow_checks, encoder_table, decoder, input_len>>
    /\ UNCHANGED treeVars
    /\ UNCHANGED streamVars

ScenarioNext ==
    \/ ScenarioBuild
    \/ \E M \in 3..ScenarioMaxLimit : ScenarioLimit(M)

SpecScenario == ScenarioInit /\ [][ScenarioNext]_vars

(***************************************************************************)
(* The static codec: src/coding/static_huffman_coding.rs                   *)
(* StaticHuffmanEncoder::encode with encode_loop, then                     *)
(* StaticHuffmanDecoder::decode_loop on the bytes written, one loop        *)
(* iteration per step.  The input is a byte sequence over the byte values  *)
(* below StaticByteValues.                                                 *)
(***************************************************************************)
STATIC_NUM_SYMBOLS == 256

\* InputSource::frequencies: the number of occurrences of every byte value.
InputSource_frequencies(data) ==
    AsSeq([b \in 1..256 |-> Cardinality({k \in 1..Len(data) : data[k] = b - 1})])

\* InputSource::len: the number of bytes of the input.
InputSource_len(data) == Len(data)

\* What encode_loop leaves when it panics before its loop.
EncodePanic ==
    [prefix_code |-> <<>>, encoder_table |-> <<>>, bw |-> BitWriter_new, ok |-> FALSE]

\* encode_loop from BitWriter::new to the loop, given t = generate_encoder_table().
encode_loop_header(input_length, code, t) ==
    IF ~t.ok THEN EncodePanic
    ELSE [prefix_code |-> code,
          encoder_table |-> t.codes,
          bw |-> encode_coding_table(code,
                     BitWriter_write_bits(BitWriter_new, ToWord(input_length), 64)),
          ok |-> TRUE]

\* encode_loop after l = apply_max_length_limit(32).
encode_loop_limited(input_length, l) ==
    IF ~l.ok THEN EncodePanic
    ELSE encode_loop_header(input_length, l.code, generate_encoder_table(l.code))

\* encode_loop after c = build_from_weights(&frequencies).
encode_loop_built(input_length, c, checks) ==
    IF ~c.ok THEN EncodePanic
    ELSE encode_loop_limited(input_length,
                             apply_max_length_limit(c.code, PREFIX_CODE_MAX_BITS, checks))

\* encode_loop up to its loop: returns [prefix_code, encoder_table, bw, ok].
encode_loop_start(input_length, frequencies, checks) ==
    encode_loop_built(input_length,
                      StaticHuffman_build(STATIC_NUM_SYMBOLS, frequencies, checks), checks)

\* decode_loop after the coding table t was read and the decoder g generated.
decode_loop_decoder(input_length, t, g) ==
    [br |-> t.br, decoder |-> g.decoder, input_len |-> input_length,
     status |-> IF g.ok THEN "decode" ELSE "panic"]

\* decode_loop after t = PrefixCode::decode_coding_table(&mut bit_reader).
decode_loop_table(input_length, t) ==
    IF t.err
    THEN [br |-> t.br, decoder |-> <<>>, input_len |-> input_length, status |-> "error"]
    ELSE decode_loop_decoder(input_length, t, generate_decoder(t.code))

\* decode_loop that decodes one symbol more than the input length read.
decode_loop_length_OneMore(rd) ==
    decode_loop_table(AsUsize(rd.result) + 1, decode_coding_table(rd.br))

\* decode_loop after rd = bit_reader.read_bits(64).
decode_loop_length(rd) == decode_loop_table(AsUsize(rd.result), decode_coding_table(rd.br))

\* decode_loop up to its loop: returns [br, decoder, input_len, status].
decode_loop_start(br) == decode_loop_length(BitReader_read_bits(br, 64))

\* Every byte sequence of at most StaticMaxBytes bytes.
StaticInit ==
    /\ pc = "start"
    /\ input \in UNION {[1..n -> 0..(StaticByteValues - 1)] : n \in 0..StaticMaxBytes}
    /\ overflow_checks \in BOOLEAN
    /\ weights = <<>>
    /\ prefix_code = <<>>
    /\ max_length = 0
    /\ encoder_table = <<>>
    /\ decoder = <<>>
    /\ input_len = 0
    /\ enc = <<>> /\ dec = <<>> /\ encHist = <<>> /\ encSeen = {} /\ decSeen = {}
    /\ bitw = BitWriter_new
    /\ bitr = BitReader_new(<<>>)
    /\ sent = <<>> /\ recv = <<>> /\ buffer = <<>> /\ written = <<>>

\* StaticHuffmanEncoder::encode and encode_loop up to its loop
StaticEncodeStart ==
    /\ pc = "start"
    /\ weights' = InputSource_frequencies(input)
    /\ \E r \in {encode_loop_start(InputSource_len(input), weights', overflow_checks)} :
           /\ prefix_code' = r.prefix_code
           /\ encoder_table' = r.encoder_table
           /\ bitw' = r.bw
           /\ pc' = IF r.ok THEN "encode" ELSE "panic"
    /\ max_length' = PREFIX_CODE_MAX_BITS
    /\ UNCHANGED <<overflow_checks, decoder, input_len>>
    /\ UNCHANGED <<bitr, sent, recv, buffer, written, input>>
    /\ UNCHANGED treeVars

\* encode_loop: one byte of the source: bit_writer.write_bits(code.0, code.1)
StaticEncodeByte ==
    /\ pc = "encode"
    /\ Len(sent) < Len(input)
    /\ \E code \in {encoder_table[input[Len(sent) + 1] + 1]} :
           bitw' = BitWriter_write_bits(bitw, ToWord(code.code), code.len)
    /\ sent' = Append(sent, input[Len(sent) + 1])
    /\ UNCHANGED <<pc, bitr, recv, buffer, written, input>>
    /\ UNCHANGED staticVars
    /\ UNCHANGED treeVars

\* encode_loop at the end of the source: bit_writer.finish(); the bytes written,
\* followed by none, one or StaticMaxTail bytes that the encoder did not write, are
\* the decoder's source.
StaticEncodeFinish ==
    /\ pc = "encode"
    /\ Len(sent) = Len(input)
    /\ bitw' = BitWriter_finish(bitw)
    /\ \E n \in {0, 1, StaticMaxTail} : bitr' = BitReader_new(bitw'.out \o Repeat(255, n))
    /\ pc' = "header"
    /\ UNCHANGED <<sent, recv, buffer, written, input>>
    /\ UNCHANGED staticVars
    /\ UNCHANGED treeVars

\* decode_loop up to its loop: the input length, the coding table, the decoder
StaticDecodeStart ==
    /\ pc = "header"
    /\ \E r \in {decode_loop_start(bitr)} :
           /\ bitr' = r.br
           /\ decoder' = r.decoder
           /\ input_len' = r.input_len
           /\ pc' = r.status
    /\ UNCHANGED <<weights, overflow_checks, prefix_code, max_length, encoder_table>>
    /\ UNCHANGED <<bitw, sent, recv, buffer, written, input>>
    /\ UNCHANGED treeVars

\* decode_loop: one iteration of for _ in 0..input_len
StaticDecodeByte ==
    /\ pc = "decode"
    /\ Len(recv) < input_len
    /\ \E r \in {PrefixDecoder_decode(decoder, bitr, overflow_checks)} :
           /\ bitr' = r.br
           /\ recv' = Append(recv, r.symbol)
           /\ IF ~r.ok
              THEN pc' = "panic" /\ UNCHANGED <<buffer, written>>
              ELSE /\ pc' = "decode"
                   /\ \E buffer1 \in {Append(buffer, r.symbol % 256)} :
                          IF Len(buffer1) = READ_BUFFER_SIZE
                          THEN written' = written \o buffer1 /\ buffer' = <<>>
                          ELSE buffer' = buffer1 /\ UNCHANGED written
    /\ UNCHANGED <<bitw, sent, input>>
    /\ UNCHANGED staticVars
    /\ UNCHANGED treeVars

\* decode_loop after its loop: bit_reader.finish(); writer.write_all(&buffer[0..buffer_pos])
StaticDecodeFinish ==
    /\ pc = "decode"
    /\ Len(recv) >= input_len
    /\ bitr' = BitReader_finish(bitr)
    /\ written' = written \o buffer
    /\ buffer' = <<>>
    /\ pc' = "done"
    /\ UNCHANGED <<bitw, sent, recv, input>>
    /\ UNCHANGED staticVars
    /\ UNCHANGED treeVars

StaticNext ==
    \/ StaticEncodeStart
    \/ StaticEncodeByte
    \/ StaticEncodeFinish
    \/ StaticDecodeStart
    \/ StaticDecodeByte
    \/ StaticDecodeFinish

SpecStatic == StaticInit /\ [][StaticNext]_vars

(***************************************************************************)
(* Properties of the adaptive tree.                                        *)
(***************************************************************************)
\* The Rust indices of the tree nodes: the root to the last node.
TreeRange(h) == root_node_id(h)..(Len(h.nodes) - 1)

IsInternal(h, i) == At(h.nodes, i).child > h.num_symbols

\* C3: the k-th decode returns the k-th symbol encoded, and the decoder's node
\* array after it equals the encoder's node array after encoding that symbol,
\* for every k; neither side panics.
C3_Lockstep ==
    /\ pc # "panic"
    /\ Len(recv) <= Len(sent)
    /\ \A k \in 1..Len(recv) : recv[k] = sent[k]
    /\ Len(recv) >= 1 => dec.nodes = encHist[Len(recv)]

\* Five symbols decoded, every symbol of the alphabet among them, the tree not virgin.
C3_Witness ==
    /\ pc = "decode"
    /\ Len(recv) >= 5
    /\ decSeen = 0..(DynNumSymbols - 1)
    /\ \E k \in 2..Len(recv) : recv[k] = recv[1]

SiblingProperty(h) ==
    \A i \in TreeRange(h) :
        i + 1 \in TreeRange(h) => At(h.nodes, i).weight >= At(h.nodes, i + 1).weight

\* C4: before and after every encode or decode of one symbol, the weights of
\* adjacent tree nodes, from the root to the last node, are non-increasing.
C4_Sibling == SiblingProperty(enc) /\ SiblingProperty(dec)

\* A decoder tree of at least five nodes in which two adjacent nodes differ in weight
\* and two others are equal, after a symbol was decoded twice.
C4_Witness ==
    /\ Len(recv) >= 3
    /\ Len(dec.nodes) >= dec.num_symbols + 6
    /\ \E i \in TreeRange(dec) : i + 1 \in TreeRange(dec)
            /\ At(dec.nodes, i).weight = At(dec.nodes, i + 1).weight
    /\ \E k \in 2..Len(recv) : recv[k] = recv[1]

InternalNodesConsistent(h) ==
    \A i \in TreeRange(h) :
        IsInternal(h, i) =>
            LET node == At(h.nodes, i)
                left_child == At(h.nodes, node.child)
                right_child == At(h.nodes, node.child + 1)
            IN  /\ node.child + 1 <= Len(h.nodes) - 1
                /\ node.weight % 2 = 1
                /\ node.weight = 2 * ((left_child.weight \div 2) + (right_child.weight \div 2)) + 1
                /\ left_child.parent = i
                /\ right_child.parent = i

\* C5: after every encode or decode of one symbol, every internal tree node has
\* an odd weight equal to 2 * (raw weight of left child + raw weight of right
\* child) + 1, and both children, at child and child + 1, name it as parent.
C5_Internal == InternalNodesConsistent(enc) /\ InternalNodesConsistent(dec)

\* An encoder tree with an internal node whose children do not follow it directly
\* (subtrees have been swapped) and whose raw weight is at least 3.
C5_Witness ==
    \E i \in TreeRange(enc) :
        /\ IsInternal(enc, i)
        /\ At(enc.nodes, i).child > i + 1
        /\ At(enc.nodes, i).weight >= 7

LeavesOf(h, s) == {i \in TreeRange(h) : At(h.nodes, i).child = s + 1}

SymbolSlotsConsistent(h, seen) ==
    \A s \in 0..(h.num_symbols - 1) :
        LET slot == At(h.nodes, s + 1)
        IN  /\ slot.parent = 0 <=> s \notin seen
            /\ s \in seen =>
                  /\ LeavesOf(h, s) = {slot.parent}
                  /\ At(h.nodes, slot.parent).weight % 2 = 0

\* C6: after every encode or decode of one symbol, symbol slot s + 1 has parent 0
\* exactly when s has not been seen since the last reset; otherwise its parent is
\* the index of the only tree leaf whose child field is s + 1, a node of even weight.
C6_SymbolSlots == SymbolSlotsConsistent(enc, encSeen) /\ SymbolSlotsConsistent(dec, decSeen)

\* A decoder with a seen symbol whose leaf has moved from where it was added, and
\* an unseen symbol.
C6_Witness ==
    /\ decSeen # {}
    /\ decSeen # 0..(DynNumSymbols - 1)
    /\ \E s \in decSeen :
          /\ At(dec.nodes, At(dec.nodes, s + 1).parent).weight >= 4
          /\ At(dec.nodes, s + 1).parent < Len(dec.nodes) - 2
          /\ At(dec.nodes, At(dec.nodes, s + 1).parent).parent # At(dec.nodes, s + 1).parent - 1

NytIsLast(h) ==
    /\ At(h.nodes, Len(h.nodes) - 1).weight = 0
    /\ At(h.nodes, Len(h.nodes) - 1).child = NYT_SYMBOL
    /\ \A i \in TreeRange(h) : At(h.nodes, i).child = NYT_SYMBOL => i = Len(h.nodes) - 1

\* C7: after construction and after every encode or decode of one symbol, the
\* last element of the node array is the NYT leaf (weight 0, child field 0), and
\* no other tree node has child field 0.
C7_Nyt == NytIsLast(enc) /\ NytIsLast(dec)

\* The NYT leaf after the whole alphabet has been added and subtrees were swapped.
C7_Witness ==
    /\ encSeen = 0..(DynNumSymbols - 1)
    /\ Len(enc.nodes) = 3 * DynNumSymbols + 2
    /\ \E i \in TreeRange(enc) : IsInternal(enc, i) /\ At(enc.nodes, i).child > i + 1

(***************************************************************************)
(* Properties of the adaptive codec.                                       *)
(***************************************************************************)
IsPrefix(a, b) == Len(a) <= Len(b) /\ a = SubSeq(b, 1, Len(a))

\* C1: a fresh DynamicHuffmanDecoder applied to the output of a fresh
\* DynamicHuffmanEncoder on the byte sequence B writes exactly B: neither side
\* panics, the bytes decoded so far are a prefix of B, and when decode_loop
\* returns, the bytes written are B.
C1_AdaptiveRoundTrip ==
    /\ pc # "panic"
    /\ pc \in {"decode", "done"} => IsPrefix(written \o buffer, input)
    /\ pc = "done" => written = input /\ buffer = <<>>

\* A stream of at least four bytes, every byte value among them, decoded to its end.
C1_Witness ==
    /\ pc = "done"
    /\ Len(input) >= 4
    /\ {input[k] : k \in 1..Len(input)} = 0..(END_OF_STREAM - 1)
    /\ written = input

(***************************************************************************)
(* Properties of the static Huffman builder and of the static codec.       *)
(***************************************************************************)
\* The symbols of non-zero weight.
NonzeroSymbols(wts) == {s \in 0..(Len(wts) - 1) : wts[s + 1] > 0}

\* The symbols of the buckets, in order.
AssignedSymbols(lengths) == collapse_symbols(lengths, 0)

\* Every symbol of the set is in exactly one bucket, once, and no other symbol is.
AssignedExactlyOnce(lengths, symbols) ==
    LET assigned == AssignedSymbols(lengths)
    IN  /\ {assigned[k] : k \in 1..Len(assigned)} = symbols
        /\ Len(assigned) = Cardinality(symbols)

RECURSIVE KraftScaled(_, _)
\* The Kraft sum of the buckets from L on, times 2^(Len(lengths) - 1).
KraftScaled(lengths, L) ==
    IF L >= Len(lengths) THEN 0
    ELSE Len(At(lengths, L)) * (2 ^ (Len(lengths) - 1 - L)) + KraftScaled(lengths, L + 1)

\* The Kraft sum is 1, or 1/2 when n = 1 symbol is assigned.
KraftEquality(lengths, n) ==
    /\ Len(lengths) >= 2
    /\ KraftScaled(lengths, 0) = IF n = 1 THEN 2 ^ (Len(lengths) - 2) ELSE 2 ^ (Len(lengths) - 1)

RECURSIVE SetSum(_, _)
\* The sum of f over the set S.
SetSum(S, f) ==
    IF S = {} THEN 0
    ELSE LET x == CHOOSE x \in S : TRUE IN f[x] + SetSum(S \ {x}, f)

\* The code length of symbol s in the buckets.
LengthOf(lengths, s) ==
    CHOOSE L \in 0..(Len(lengths) - 1) : \E k \in 1..Len(At(lengths, L)) : At(lengths, L)[k] = s

\* The sum over the symbols of weight(s) * length(s).
Cost(wts, len) == SetSum(DOMAIN len, [s \in DOMAIN len |-> wts[s + 1] * len[s]])

\* The length assignments of the prefix codes on the symbols: Kraft sum at most 1.
\* An optimal code has no code longer than the number of symbols less one.
PrefixCodeLengths(symbols) ==
    LET n == Cardinality(symbols)
    IN  {len \in [symbols -> 1..(n - 1)] :
            SetSum(symbols, [s \in symbols |-> 2 ^ (n - 1 - len[s])]) <= 2 ^ (n - 1)}

\* The least cost of a prefix code on the symbols of non-zero weight.
OptimalCost(wts) ==
    LET costs == {Cost(wts, len) : len \in PrefixCodeLengths(NonzeroSymbols(wts))}
    IN  CHOOSE c \in costs : \A d \in costs : c <= d

\* The cost of the buckets built.
BuiltCost(wts, lengths) ==
    Cost(wts, [s \in NonzeroSymbols(wts) |-> LengthOf(lengths, s)])

\* C9: for every weight vector with at least one non-zero weight,
\* build_from_weights returns, and the buckets it returns have bucket 0 empty,
\* every symbol of non-zero weight exactly once, no symbol of zero weight, and
\* a Kraft sum of exactly 1 (1/2 when only one weight is non-zero).
C9_BuildValid ==
    NonzeroSymbols(weights) # {} =>
        /\ pc # "build_panic"
        /\ pc = "built" =>
              /\ Len(prefix_code.lengths) >= 1
              /\ At(prefix_code.lengths, 0) = <<>>
              /\ AssignedExactlyOnce(prefix_code.lengths, NonzeroSymbols(weights))
              /\ KraftEquality(prefix_code.lengths, Cardinality(NonzeroSymbols(weights)))

\* C10: for every weight vector with at least two non-zero weights, the lengths
\* build_from_weights returns minimise the sum of weight(s) * length(s) among
\* the prefix codes on the symbols of non-zero weight.
C10_BuildOptimal ==
    (pc = "built" /\ Cardinality(NonzeroSymbols(weights)) >= 2) =>
        BuiltCost(weights, prefix_code.lengths) = OptimalCost(weights)

\* C8: for every code built by build_from_weights and every M >= 1 with
\* 2^M at least the number of symbols of non-zero weight,
\* apply_max_length_limit(M) returns normally, with at most M + 1 buckets,
\* every symbol still assigned exactly once and a Kraft sum of 1 (1/2 for a
\* single symbol).
C8_LimitValid ==
    (/\ pc \in {"limited", "limit_panic"}
     /\ max_length >= 1
     /\ 2 ^ max_length >= Cardinality(NonzeroSymbols(weights))) =>
        /\ pc = "limited"
        /\ Len(prefix_code.lengths) <= max_length + 1
        /\ AssignedExactlyOnce(prefix_code.lengths, NonzeroSymbols(weights))
        /\ KraftEquality(prefix_code.lengths, Cardinality(NonzeroSymbols(weights)))

\* C24: the static decoder reads the input length n from the first 64 bits of the
\* stream and then the coding table, decodes n symbols and writes one byte for each,
\* n bytes in all, whatever follows the last code word in its source; it neither
\* panics nor fails on a stream the encoder wrote.
C24_DecodesInputLength ==
    /\ pc \in {"decode", "done"} =>
           /\ input_len = Len(input)
           /\ Len(recv) <= input_len
           /\ written \o buffer = [k \in 1..Len(recv) |-> recv[k] % 256]
    /\ pc = "done" => Len(written) = input_len /\ buffer = <<>>
    /\ pc \in {"panic", "error"} => bitw.out = <<>>

C24_Witness ==
    /\ pc = "done"
    /\ Len(written) = StaticMaxBytes
    /\ Len(bitr.src) = Len(bitw.out) + StaticMaxTail
    /\ \E j, k \in 1..Len(written) : written[j] # written[k]

\* C23: when more symbols have a code than 2^M code words of length M exist,
\* apply_max_length_limit(M) panics; it returns no code then, and whatever it
\* returns has a Kraft sum of 1 and no length above M.
C23_TooSmallAborts ==
    /\ (/\ pc \in {"limited", "limit_panic"}
        /\ Cardinality(NonzeroSymbols(weights)) > 2 ^ max_length) => pc = "limit_panic"
    /\ pc = "limited" =>
           /\ Len(prefix_code.lengths) <= max_length + 1
           /\ KraftEquality(prefix_code.lengths, Cardinality(NonzeroSymbols(weights)))

C23_Witness ==
    /\ pc = "limit_panic"
    /\ max_length >= 2
    /\ Cardinality(NonzeroSymbols(weights)) > 2 ^ max_length

\* C2: for every byte sequence B, the empty sequence and the sequences of a
\* single distinct byte value included, the static decoder applied to the
\* output of the static encoder on B writes exactly B: neither side panics or
\* fails, and when decode_loop returns, the bytes written are B.
C2_StaticRoundTrip ==
    /\ pc \notin {"panic", "error"}
    /\ pc = "done" => written = input

(***************************************************************************)
(* What the builder and the static codec do keep, on the inputs where the  *)
(* failures above do not occur.                                            *)
(***************************************************************************)
\* The buckets built are valid whenever build_from_weights returns.
BuiltValid ==
    pc = "built" =>
        /\ At(prefix_code.lengths, 0) = <<>>
        /\ AssignedExactlyOnce(prefix_code.lengths, NonzeroSymbols(weights))
        /\ KraftEquality(prefix_code.lengths, Cardinality(NonzeroSymbols(weights)))

\* No weight has its top bit set, so that weights[i] << 1 drops nothing.
NoWeightTruncated == \A k \in 1..Len(weights) : 2 * weights[k] < WEIGHT_MODULUS

\* The buckets built are optimal when no weight is truncated and no sum wraps.
BuiltOptimalWithoutOverflow ==
    (/\ pc = "built"
     /\ Cardinality(NonzeroSymbols(weights)) >= 2
     /\ NoWeightTruncated
     /\ 2 * SetSum(1..Len(weights), weights) + Len(weights) < WEIGHT_MODULUS) =>
        BuiltCost(weights, prefix_code.lengths) = OptimalCost(weights)

\* The limited code is valid whenever apply_max_length_limit returns.
LimitedValid ==
    pc = "limited" =>
        /\ Len(prefix_code.lengths) <= max_length + 1
        /\ AssignedExactlyOnce(prefix_code.lengths, NonzeroSymbols(weights))
        /\ KraftEquality(prefix_code.lengths, Cardinality(NonzeroSymbols(weights)))

\* The static codec round-trips every input that is not empty.
StaticRoundTripNonEmpty ==
    Len(input) > 0 =>
        /\ pc \notin {"panic", "error"}
        /\ pc = "done" => written = input
        /\ pc = "decode" => IsPrefix(written \o buffer, input)

(***************************************************************************)
(* The coding-table machine: a PrefixCode built as the tests of            *)
(* prefix_code.rs build theirs, its encoder table and its decoder; one     *)
(* symbol is written with the encoder table, followed by fill bits up to a *)
(* whole word, and decoded back, as tests::test_encode_decode does.        *)
(***************************************************************************)
RECURSIVE create_prefix_lengths(_, _, _)
\* tests::create_prefix_table: data[k] consecutive symbols in the k-th bucket.
create_prefix_lengths(data, k, symbol) ==
    IF k > Len(data) THEN <<>>
    ELSE <<AsSeq([j \in 1..data[k] |-> symbol + j - 1])>>
         \o create_prefix_lengths(data, k + 1, symbol + data[k])

create_prefix_table(data) ==
    PrefixCode_new(SetSum(1..Len(data), data), create_prefix_lengths(data, 1, 0)).code

\* The bucket sizes of the full tree that has shape[d] internal nodes at depth d.
ShapeData(shape) ==
    <<0>> \o AsSeq([d \in 1..(Len(shape) + 1) |->
                      2 * (IF d = 1 THEN 1 ELSE shape[d - 1])
                      - (IF d = Len(shape) + 1 THEN 0 ELSE shape[d])])

\* The full trees up to TableMaxLength deep that have one internal node at every
\* depth, but two at no more than TableWide depths.
TableShapes ==
    {shape \in UNION {[1..k -> {1, 2}] : k \in 0..(TableMaxLength - 1)} :
        Cardinality({d \in 1..Len(shape) : shape[d] = 2}) <= TableWide}

\* The code with its symbols in descending order.
ReversedCode(code) ==
    [code EXCEPT !.lengths =
        AsSeq([L \in 1..Len(code.lengths) |->
                  AsSeq([k \in 1..Len(code.lengths[L]) |->
                            code.num_symbols - 1 - code.lengths[L][k]])])]

\* The codes of the machine: every shape in both symbol orders, and the code of a
\* single symbol.
TableCodes ==
    {create_prefix_table(ShapeData(shape)) : shape \in TableShapes}
    \cup {ReversedCode(create_prefix_table(ShapeData(shape))) : shape \in TableShapes}
    \cup {create_prefix_table(<<0, 1>>)}

\* The word whose low n bits are the bit `fill`.
FillWord(fill, n) == [i \in 1..WORD_BITS |-> IF i > WORD_BITS - n THEN fill ELSE 0]

\* The code, its encoder table and its decoder.
TableInit ==
    /\ prefix_code \in TableCodes
    /\ overflow_checks \in BOOLEAN
    /\ \E t \in {generate_encoder_table(prefix_code)} :
       \E g \in {generate_decoder(prefix_code)} :
           /\ encoder_table = t.codes
           /\ decoder = g.decoder
           /\ pc = IF t.ok /\ g.ok THEN "coded" ELSE "panic"
    /\ weights = <<>>
    /\ max_length = 0
    /\ input_len = 0
    /\ enc = <<>> /\ dec = <<>> /\ encHist = <<>> /\ encSeen = {} /\ decSeen = {}
    /\ bitw = BitWriter_new
    /\ bitr = BitReader_new(<<>>)
    /\ sent = <<>> /\ recv = <<>> /\ buffer = <<>> /\ written = <<>> /\ input = <<>>

\* writer.write_bits(code as u64, len as u32) for the symbol, the fill bits, and
\* writer.finish(); the bytes written are the reader's source.
TableEncode(symbol, fill) ==
    /\ pc = "coded"
    /\ \E code \in {encoder_table[symbol + 1]} :
           bitw' = BitWriter_finish(
                       BitWriter_write_bits(
                           BitWriter_write_bits(bitw, ToWord(code.code), code.len),
                           FillWord(fill, WORD_BITS - code.len), WORD_BITS - code.len))
    /\ bitr' = BitReader_new(bitw'.out)
    /\ sent' = Append(sent, symbol)
    /\ pc' = "written"
    /\ UNCHANGED <<recv, buffer, written, input>>
    /\ UNCHANGED staticVars
    /\ UNCHANGED treeVars

\* let symbol = decoder.decode(&mut reader)
TableDecode ==
    /\ pc = "written"
    /\ \E r \in {PrefixDecoder_decode(decoder, bitr, overflow_checks)} :
           /\ bitr' = r.br
           /\ recv' = Append(recv, r.symbol)
           /\ pc' = IF r.ok THEN "decoded" ELSE "panic"
    /\ UNCHANGED <<bitw, sent, buffer, written, input>>
    /\ UNCHANGED staticVars
    /\ UNCHANGED treeVars

TableNext ==
    \/ \E symbol \in 0..(prefix_code.num_symbols - 1), fill \in {0, 1} :
           TableEncode(symbol, fill)
    \/ TableDecode

SpecTable == TableInit /\ [][TableNext]_vars

RECURSIVE FirstCode(_, _)
\* The first canonical code word of length L.
FirstCode(lengths, L) ==
    IF L <= 1 THEN 0 ELSE 2 * (FirstCode(lengths, L - 1) + Len(At(lengths, L - 1)))

\* The canonical code word of symbol s: the first of its length plus its rank in
\* its bucket.
CanonicalCode(lengths, s) ==
    LET L == LengthOf(lengths, s)
    IN  FirstCode(lengths, L)
        + (CHOOSE k \in 1..Len(At(lengths, L)) : At(lengths, L)[k] = s) - 1

\* The code word a is a prefix of the code word b.
IsPrefixWord(a, b) == a.len <= b.len /\ b.code \div (2 ^ (b.len - a.len)) = a.code

\* The length of the code word of the symbol written.
SentLength == LengthOf(prefix_code.lengths, sent[1])

\* C11: for every code of the machine (Kraft sum 1, or the single symbol) and
\* every symbol s, decode on a peek word whose leading bits are the canonical
\* code word of s returns s and consumes exactly length(s) bits, whatever
\* bits follow and whichever table serves the code; it does not panic.
C11_DecodeCodeWord ==
    /\ pc # "panic"
    /\ pc \in {"written", "decoded"} =>
           encoder_table[sent[1] + 1] =
               [code |-> CanonicalCode(prefix_code.lengths, sent[1]), len |-> SentLength]
    /\ pc = "decoded" =>
           /\ recv = sent
           /\ bitr = BitReader_consume(BitReader_fill_data(BitReader_new(bitw.out)),
                                       SentLength)
           /\ bitr.bits_avail = WORD_BITS - SentLength

\* A symbol of a code longer than both tables, decoded by the slow scan.
C11_Witness ==
    /\ pc = "decoded"
    /\ recv = sent
    /\ SentLength > DECODE_TABLE_BITS + MAX_SECONDARY_TABLE_BITS
    /\ Len(decoder.slow_decode_table) > 0

\* A symbol decoded through a secondary table.
SecondaryTableServes ==
    /\ pc = "decoded"
    /\ recv = sent
    /\ SentLength > DECODE_TABLE_BITS
    /\ SentLength <= DECODE_TABLE_BITS + decoder.secondary_table_bits

\* C12: generate_encoder_table assigns the canonical code words (a counter from
\* 0, incremented after each symbol in bucket order, doubled between
\* consecutive lengths); every code word fits in its length and no code word
\* is a prefix of another.
C12_CanonicalCodes ==
    pc # "panic" =>
        /\ Len(encoder_table) = prefix_code.num_symbols
        /\ \A s \in 0..(prefix_code.num_symbols - 1) :
               /\ encoder_table[s + 1].code = CanonicalCode(prefix_code.lengths, s)
               /\ encoder_table[s + 1].len = LengthOf(prefix_code.lengths, s)
               /\ encoder_table[s + 1].len >= 1
               /\ encoder_table[s + 1].code < 2 ^ encoder_table[s + 1].len
        /\ \A s, t \in 0..(prefix_code.num_symbols - 1) :
               s # t => ~IsPrefixWord(encoder_table[s + 1], encoder_table[t + 1])

\* A code of at least eight symbols with code words of seven bits or more.
C12_Witness ==
    /\ pc = "coded"
    /\ prefix_code.num_symbols >= 8
    /\ Len(prefix_code.lengths) > 7
    /\ \E s \in 0..(prefix_code.num_symbols - 1) : encoder_table[s + 1].len >= 7

(***************************************************************************)
(* The bit-stream machine: a sequence of write_bits calls and finish, then *)
(* a BitReader over the bytes written reads the same widths back, and may  *)
(* finish after any of them.  `sent` holds the (data, bits) pairs written, *)
(* `recv` the words read back.                                             *)
(* src/bits/bit_writer.rs, src/bits/bit_reader.rs                          *)
(***************************************************************************)
\* The widths written: none, one bit, a byte, more than half a word, a word less one
\* bit, a whole word.
BitWidths == {0, 1, 8, 33, 63, 64}

\* The values written, each below 2^bits: all ones, the lowest bit only, and
\* alternate bits.
BitValues(bits) ==
    {[i \in 1..WORD_BITS |-> IF i > WORD_BITS - bits THEN 1 ELSE 0],
     [i \in 1..WORD_BITS |-> IF i = WORD_BITS /\ bits > 0 THEN 1 ELSE 0],
     [i \in 1..WORD_BITS |-> IF i > WORD_BITS - bits /\ (WORD_BITS - i) % 2 = 0 THEN 1 ELSE 0]}

BitsInit ==
    /\ pc = "write"
    /\ bitw = BitWriter_new
    /\ bitr = BitReader_new(<<>>)
    /\ sent = <<>>
    /\ recv = <<>>
    /\ buffer = <<>> /\ written = <<>> /\ input = <<>>
    /\ enc = <<>> /\ dec = <<>> /\ encHist = <<>> /\ encSeen = {} /\ decSeen = {}
    /\ weights = <<>>
    /\ overflow_checks = FALSE
    /\ prefix_code = <<>>
    /\ max_length = 0
    /\ encoder_table = <<>>
    /\ decoder = <<>>
    /\ input_len = 0

\* bw.write_bits(data, bits)
BitsWrite(data, bits) ==
    /\ pc = "write"
    /\ Len(sent) < BitsMaxWrites
    /\ bitw' = BitWriter_write_bits(bitw, data, bits)
    /\ sent' = Append(sent, [data |-> data, bits |-> bits])
    /\ UNCHANGED <<pc, bitr, recv, buffer, written, input>>
    /\ UNCHANGED treeVars
    /\ UNCHANGED staticVars

\* bw.finish(), and BitReader::new over a Cursor of the bytes the writer received.
BitsFinish ==
    /\ pc = "write"
    /\ \E b \in {BitWriter_finish(bitw)} :
           /\ bitw' = b
           /\ bitr' = BitReader_new(b.out)
    /\ pc' = "read"
    /\ UNCHANGED <<sent, recv, buffer, written, input>>
    /\ UNCHANGED treeVars
    /\ UNCHANGED staticVars

\* br.read_bits(bits) for the next width written.
BitsRead ==
    /\ pc = "read"
    /\ Len(recv) < Len(sent)
    /\ \E r \in {BitReader_read_bits(bitr, sent[Len(recv) + 1].bits)} :
           /\ bitr' = r.br
           /\ recv' = Append(recv, r.result)
    /\ UNCHANGED <<pc, bitw, sent, buffer, written, input>>
    /\ UNCHANGED treeVars
    /\ UNCHANGED staticVars

\* br.finish(), after any number of the widths.
BitsReaderFinish ==
    /\ pc = "read"
    /\ bitr' = BitReader_finish(bitr)
    /\ pc' = "done"
    /\ UNCHANGED <<bitw, sent, recv, buffer, written, input>>
    /\ UNCHANGED treeVars
    /\ UNCHANGED staticVars

BitsNext ==
    \/ \E bits \in BitWidths : \E data \in BitValues(bits) : BitsWrite(data, bits)
    \/ BitsFinish
    \/ BitsRead
    \/ BitsReaderFinish

SpecBits == BitsInit /\ [][BitsNext]_vars

\* The number of bits of the first n writes.
RECURSIVE BitsTotal(_, _)
BitsTotal(writes, n) == IF n = 0 THEN 0 ELSE writes[n].bits + BitsTotal(writes, n - 1)

\* The bits of the writes in write order: the low `bits` bits of each value, highest first.
RECURSIVE WrittenBits(_)
WrittenBits(writes) ==
    IF writes = <<>> THEN <<>>
    ELSE SubSeq(writes[1].data, WORD_BITS - writes[1].bits + 1, WORD_BITS)
         \o WrittenBits(Tail(writes))

CeilDiv(a, b) == (a + b - 1) \div b

\* The bit string packed into bytes, the first bit highest, zeros after the last bit.
PackBytes(bitstring) ==
    [k \in 1..CeilDiv(Len(bitstring), 8) |->
        SetSum(1..8, [j \in 1..8 |->
            IF 8 * (k - 1) + j <= Len(bitstring)
            THEN bitstring[8 * (k - 1) + j] * (2 ^ (8 - j)) ELSE 0])]

\* C13: every value written with write_bits comes back, in order, from read_bits of
\* the same widths over the bytes the writer produced.
C13_BitRoundTrip ==
    pc \in {"read", "done"} =>
        /\ Len(recv) <= Len(sent)
        /\ \A k \in 1..Len(recv) : recv[k] = sent[k].data

C13_Witness ==
    /\ pc = "read"
    /\ Len(recv) = BitsMaxWrites
    /\ \E k \in 1..Len(sent) : sent[k].bits = 64 /\ sent[k].data[1] = 1
    /\ BitsTotal(sent, Len(sent)) % 64 # 0
    /\ BitsTotal(sent, Len(sent)) > 64

\* C14: finish returns the number of bytes that hold the bits written, and the sink
\* has exactly those bytes: the bits in write order, the first bit of a byte highest,
\* then zero bits up to the byte boundary.
C14_FinishBytes ==
    pc \in {"read", "done"} =>
        /\ bitw.bytes_written = CeilDiv(BitsTotal(sent, Len(sent)), 8)
        /\ bitw.out = PackBytes(WrittenBits(sent))
        /\ bitw.write_errors = 0

C14_Witness ==
    /\ pc = "read"
    /\ BitsTotal(sent, Len(sent)) % 8 # 0
    /\ BitsTotal(sent, Len(sent)) > 64
    /\ bitw.out[Len(bitw.out)] # 0

\* C15 as stated: finish of the reader reports the bytes that hold the bits read.
C15_ReaderFinishCeil ==
    pc = "done" => bitr.bytes_read = CeilDiv(BitsTotal(sent, Len(recv)), 8)

\* C15: finish of the reader reports the whole 8-byte words the reads have taken, or
\* the length of the source when that is less.
C15_ReaderFinishWords ==
    pc = "done" =>
        bitr.bytes_read = Min(Len(bitr.src), 8 * CeilDiv(BitsTotal(sent, Len(recv)), 64))

C15_Witness ==
    /\ pc = "done"
    /\ Len(recv) > 0
    /\ Len(bitr.src) > 8 * CeilDiv(BitsTotal(sent, Len(recv)), 64)
    /\ bitr.bytes_read > CeilDiv(BitsTotal(sent, Len(recv)), 8)

(***************************************************************************)
(* The reader machine: a BitReader over a Cursor of `input`, driven by     *)
(* read_bits, fill_data and peek-then-consume in any order, past the end   *)
(* of the source.  `sent` holds the widths taken, `recv` the words got.    *)
(* src/bits/bit_reader.rs                                                  *)
(***************************************************************************)
\* The source of n bytes: a fixed pattern of byte values, none of them zero.
SourceBytes(n) == AsSeq([k \in 1..n |-> ((k * 37 + 90) % 255) + 1])

\* The widths read with read_bits, and the widths consumed after a peek.
ReaderWidths == {0, 1, 33, 64}
ConsumeWidths == {1, 9}

ReaderInit ==
    /\ pc = "reading"
    /\ input \in {SourceBytes(n) : n \in 0..ReaderMaxBytes}
    /\ bitr = BitReader_new(input)
    /\ bitw = BitWriter_new
    /\ sent = <<>>
    /\ recv = <<>>
    /\ buffer = <<>> /\ written = <<>>
    /\ enc = <<>> /\ dec = <<>> /\ encHist = <<>> /\ encSeen = {} /\ decSeen = {}
    /\ weights = <<>>
    /\ overflow_checks = FALSE
    /\ prefix_code = <<>>
    /\ max_length = 0
    /\ encoder_table = <<>>
    /\ decoder = <<>>
    /\ input_len = 0

\* br.read_bits(bits)
ReaderReadBits(bits) ==
    /\ Len(sent) < ReaderMaxReads
    /\ \E r \in {BitReader_read_bits(bitr, bits)} :
           /\ bitr' = r.br
           /\ recv' = Append(recv, r.result)
    /\ sent' = Append(sent, bits)
    /\ UNCHANGED <<pc, bitw, buffer, written, input>>
    /\ UNCHANGED treeVars
    /\ UNCHANGED staticVars

\* br.fill_data()
ReaderFillData ==
    /\ bitr' = BitReader_fill_data(bitr)
    /\ UNCHANGED <<pc, bitw, sent, recv, buffer, written, input>>
    /\ UNCHANGED treeVars
    /\ UNCHANGED staticVars

\* br.peek() >> (64 - bits), then br.consume(bits), for bits <= br.bits_avail().
ReaderConsume(bits) ==
    /\ Len(sent) < ReaderMaxReads
    /\ bits <= bitr.bits_avail
    /\ recv' = Append(recv, Shr(bitr.data, WORD_BITS - bits))
    /\ bitr' = BitReader_consume(bitr, bits)
    /\ sent' = Append(sent, bits)
    /\ UNCHANGED <<pc, bitw, buffer, written, input>>
    /\ UNCHANGED treeVars
    /\ UNCHANGED staticVars

ReaderNext ==
    \/ \E bits \in ReaderWidths : ReaderReadBits(bits)
    \/ ReaderFillData
    \/ \E bits \in ConsumeWidths : ReaderConsume(bits)

SpecReader == ReaderInit /\ [][ReaderNext]_vars

\* Bit p (from 1) of the source, the first bit of a byte its highest; 0 past the end.
SourceBit(src, p) ==
    IF p <= 8 * Len(src) THEN (src[((p - 1) \div 8) + 1] \div (2 ^ (7 - ((p - 1) % 8)))) % 2 ELSE 0

\* The word holding the `bits` source bits after the first `pos`, at its low end.
SourceWord(src, pos, bits) ==
    [i \in 1..WORD_BITS |->
        IF i > WORD_BITS - bits THEN SourceBit(src, pos + (i - (WORD_BITS - bits))) ELSE 0]

\* The sum of the first n widths.
RECURSIVE WidthsTotal(_, _)
WidthsTotal(widths, n) == IF n = 0 THEN 0 ELSE widths[n] + WidthsTotal(widths, n - 1)

\* C16: reading to and past the end of the source is not an error: every word got is
\* the next source bits, highest first, with a zero bit for every position past the
\* last byte, the bits available to peek are the next source bits too, and
\* num_read_errors stays 0.
C16_EndOfStream ==
    pc = "reading" =>
        /\ bitr.num_read_errors = 0
        /\ \A k \in 1..Len(recv) :
               recv[k] = SourceWord(input, WidthsTotal(sent, k - 1), sent[k])
        /\ \A i \in 1..bitr.bits_avail :
               bitr.data[i] = SourceBit(input, WidthsTotal(sent, Len(sent)) + i)

C16_Witness ==
    /\ pc = "reading"
    /\ Len(input) > 0
    /\ WidthsTotal(sent, Len(sent)) > 8 * Len(input) + 64
    /\ bitr.bits_avail = 64
    /\ \E k \in 1..Len(recv) :
           /\ WidthsTotal(sent, k - 1) < 8 * Len(input)
           /\ WidthsTotal(sent, k) > 8 * Len(input)
           /\ recv[k] # ZeroWord

\* The bits handed out by the first k calls: the low widths[k] bits of each word, the
\* highest first.
RECURSIVE HandedOut(_, _, _)
HandedOut(widths, words, k) ==
    IF k = 0 THEN <<>>
    ELSE HandedOut(widths, words, k - 1)
         \o SubSeq(words[k], WORD_BITS - widths[k] + 1, WORD_BITS)

\* C27: whatever the interleaving of fill_data, of consume(n) with n <= bits_avail
\* and of read_bits(n), the bits handed out (the top n bits of peek() at a consume,
\* the result of a read_bits) are, one after the other, the bits of the source bytes,
\* the highest bit of a byte first, and zeros after the last byte.
C27_BitsInOrder ==
    HandedOut(sent, recv, Len(sent))
        = AsSeq([p \in 1..WidthsTotal(sent, Len(sent)) |-> SourceBit(input, p)])

C27_Witness ==
    /\ Len(input) > 8
    /\ \E j, k \in 1..Len(sent) : j < k /\ sent[j] = 9 /\ sent[k] = 33
    /\ WidthsTotal(sent, Len(sent)) > 64
    /\ bitr.bits_avail \in 1..63
    /\ \E i \in (bitr.bits_avail + 1)..WORD_BITS : bitr.data[i] = 1
    /\ recv[Len(recv)] # ZeroWord

\* C28: after every operation of the reader (fill_data, consume, read_bits), every
\* bit of data below the top bits_avail bits is zero.
C28_LowBitsZero ==
    \A i \in (bitr.bits_avail + 1)..WORD_BITS : bitr.data[i] = 0

\* C28, amended: after every operation of the reader, every bit of data below the
\* top bits_avail bits is zero or is the source bit that follows at that position.
C28_LowBitsZeroOrAhead ==
    \A i \in (bitr.bits_avail + 1)..WORD_BITS :
        bitr.data[i] \in {0, SourceBit(input, WidthsTotal(sent, Len(sent)) + i)}

C28_Witness ==
    /\ sent # <<>>
    /\ 8 * Len(input) >= WidthsTotal(sent, Len(sent)) + WORD_BITS
    /\ bitr.bits_avail \in 1..(WORD_BITS - 1)
    /\ \E i \in (bitr.bits_avail + 1)..WORD_BITS :
           bitr.data[i] = 1 /\ SourceBit(input, WidthsTotal(sent, Len(sent)) + i) = 1

\* C25: in every state of the reader, read_bits(0) returns 0 and changes nothing:
\* not data, not bits_avail, not the position in the buffer; it makes no read of the
\* source, also when the next read of the source would fail.
C25_ReadZeroBits ==
    /\ BitReader_read_bits(bitr, 0) = [br |-> bitr, result |-> ZeroWord]
    /\ \E failing \in {[bitr EXCEPT !.src_fails = <<TRUE>>]} :
           BitReader_read_bits(failing, 0) = [br |-> failing, result |-> ZeroWord]
    /\ \A k \in 1..Len(recv) : sent[k] = 0 => recv[k] = ZeroWord

C25_Witness ==
    /\ Len(sent) > 1
    /\ sent[Len(sent)] = 0
    /\ bitr.bits_avail \in 1..63
    /\ bitr.data # ZeroWord
    /\ bitr.buf_pos < bitr.buf_end
    /\ recv[Len(recv)] = ZeroWord

(***************************************************************************)
(* The header machine: the static codec's stream up to the end of the      *)
(* coding table (the input length, 0, then the table), written from a      *)
(* PrefixCode by encode_coding_table or field by field, and read as        *)
(* decode_loop reads it, by a reader whose source may fail.  `sent` holds  *)
(* the length fields written, `input` which reads of the source fail,      *)
(* `recv` the result of decode_coding_table.                               *)
(* src/huffman/prefix_code.rs, src/coding/static_huffman_coding.rs         *)
(***************************************************************************)
\* tests::validate_prefix_code: whether its assertions hold.
validate_prefix_code(code) ==
    /\ Len(code.lengths[1]) = 0
    /\ Len(AssignedSymbols(code.lengths))
         = Cardinality({AssignedSymbols(code.lengths)[k] : k \in 1..Len(AssignedSymbols(code.lengths))})
    /\ KraftEquality(code.lengths, Len(AssignedSymbols(code.lengths)))

\* The codes the validator passes among those of up to HeaderMaxCount symbols at each
\* length up to HeaderMaxLength.
HeaderCodes ==
    {code \in {create_prefix_table(<<0>> \o data) :
                  data \in UNION {[1..k -> 0..HeaderMaxCount] : k \in 1..HeaderMaxLength}} :
        validate_prefix_code(code)}

\* The length fields of a stream written field by field.
HeaderLens == {1, 2, 3, 32, 33}

\* Which reads of the source return Err: none, the first, the second, the first two.
HeaderFails == {<<>>, <<TRUE>>, <<FALSE, TRUE>>, <<TRUE, TRUE>>}

\* The lengths of the non-empty buckets, in order.
bucket_lengths(code) ==
    SelectSeq(AsSeq([L \in 1..(Len(code.lengths) - 1) |-> L]), LAMBDA L : Len(At(code.lengths, L)) > 0)

RECURSIVE write_fields(_, _, _)
\* A bucket of one symbol for every length field from the k-th on.
write_fields(bw, fields, k) ==
    IF k > Len(fields) THEN bw
    ELSE write_fields(write_symbols(write_bucket_header(bw, fields[k], 1), <<k - 1>>, 1),
                      fields, k + 1)

HeaderInit ==
    /\ pc = "start"
    /\ bitw = BitWriter_new
    /\ bitr = BitReader_new(<<>>)
    /\ sent = <<>>
    /\ recv = <<>>
    /\ input = <<>>
    /\ buffer = <<>> /\ written = <<>>
    /\ enc = <<>> /\ dec = <<>> /\ encHist = <<>> /\ encSeen = {} /\ decSeen = {}
    /\ weights = <<>>
    /\ overflow_checks = FALSE
    /\ prefix_code = <<>>
    /\ max_length = 0
    /\ encoder_table = <<>>
    /\ decoder = <<>>
    /\ input_len = 0

\* encode_loop: write_bits(input_length, 64), encode_coding_table, and finish.
HeaderEncode(code) ==
    /\ pc = "start"
    /\ bitw' = BitWriter_finish(
                   encode_coding_table(code, BitWriter_write_bits(BitWriter_new, ZeroWord, 64)))
    /\ prefix_code' = code
    /\ sent' = bucket_lengths(code)
    /\ pc' = "encoded"
    /\ UNCHANGED <<bitr, recv, input, buffer, written>>
    /\ UNCHANGED <<weights, overflow_checks, max_length, encoder_table, decoder, input_len>>
    /\ UNCHANGED treeVars

\* A stream of the same layout with the given length fields, in any order, closed by
\* the terminator or by the end of the stream.
HeaderWriteFields(fields, terminator) ==
    /\ pc = "start"
    /\ \E b \in {write_fields(
                    BitWriter_write_bits(BitWriter_write_bits(BitWriter_new, ZeroWord, 64),
                                         ToWord(Len(fields)), SYMBOL_TYPE_BITS),
                    fields, 1)} :
           bitw' = BitWriter_finish(IF terminator THEN BitWriter_write_bits(b, ZeroWord, 32) ELSE b)
    /\ sent' = fields
    /\ pc' = "fields"
    /\ UNCHANGED <<bitr, recv, input, buffer, written>>
    /\ UNCHANGED staticVars
    /\ UNCHANGED treeVars

\* decode_loop: BitReader::new, read_bits(64), decode_coding_table.
HeaderDecode(fails) ==
    /\ pc \in {"encoded", "fields"}
    /\ \E rd \in {BitReader_read_bits([BitReader_new(bitw.out) EXCEPT !.src_fails = fails], 64)} :
       \E t \in {decode_coding_table(rd.br)} :
           /\ bitr' = t.br
           /\ recv' = [code |-> t.code, err |-> t.err]
           /\ input_len' = AsUsize(rd.result)
    /\ input' = fails
    /\ pc' = IF pc = "encoded" THEN "decoded" ELSE "parsed"
    /\ UNCHANGED <<bitw, sent, buffer, written>>
    /\ UNCHANGED <<weights, overflow_checks, prefix_code, max_length, encoder_table, decoder>>
    /\ UNCHANGED treeVars

HeaderNext ==
    \/ \E code \in HeaderCodes : HeaderEncode(code)
    \/ \E fields \in UNION {[1..n -> HeaderLens] : n \in 0..HeaderMaxFields} :
       \E terminator \in BOOLEAN : HeaderWriteFields(fields, terminator)
    \/ \E fails \in HeaderFails : HeaderDecode(fails)

SpecHeader == HeaderInit /\ [][HeaderNext]_vars

RECURSIVE StripEmpty(_)
\* The buckets without the empty buckets after the last non-empty one; bucket 0 stays.
StripEmpty(lengths) ==
    IF Len(lengths) > 1 /\ Len(lengths[Len(lengths)]) = 0
    THEN StripEmpty(SubSeq(lengths, 1, Len(lengths) - 1))
    ELSE lengths

\* C17 as stated: the table read from the header of a code that passes the validator
\* is Ok and has the code's num_symbols and lengths.
C17_HeaderRoundTrip ==
    pc = "decoded" /\ input = <<>> =>
        /\ ~recv.err
        /\ recv.code.num_symbols = prefix_code.num_symbols
        /\ recv.code.lengths = prefix_code.lengths

\* C17: the table read from the header of a code that passes the validator is Ok and
\* has the code's num_symbols and its lengths up to the last non-empty bucket.
C17_HeaderRoundTripStripped ==
    pc = "decoded" /\ input = <<>> =>
        /\ ~recv.err
        /\ recv.code.num_symbols = prefix_code.num_symbols
        /\ recv.code.lengths = StripEmpty(prefix_code.lengths)

C17_Witness ==
    /\ pc = "decoded"
    /\ input = <<>>
    /\ ~recv.err
    /\ Len(recv.code.lengths) = HeaderMaxLength
    /\ Len(prefix_code.lengths) = HeaderMaxLength + 1
    /\ \E L \in 2..(HeaderMaxLength - 1) :
           Len(recv.code.lengths[L]) = 0 /\ Len(recv.code.lengths[L + 1]) > 1

\* Whether a length field from the k-th on is above 32 or not above the one before.
RECURSIVE FieldsBad(_, _)
FieldsBad(fields, k) ==
    /\ k <= Len(fields)
    /\ \/ fields[k] > PREFIX_CODE_MAX_BITS
       \/ k > 1 /\ fields[k] <= fields[k - 1]
       \/ FieldsBad(fields, k + 1)

\* The length fields the parse meets: those written, or none when the read of the
\* input length failed and the parse starts at the 64 zero bits.
FieldsSeen == IF input # <<>> /\ input[1] THEN <<>> ELSE sent

\* The read errors recorded before decode_coding_table was called.
ErrorsBefore == IF input # <<>> /\ input[1] THEN 1 ELSE 0

\* C18 as stated: decode_coding_table returns Err exactly when a length field is not
\* above the earlier ones or is above 32, or a read error was recorded during the parse.
C18_ErrorCases ==
    pc \in {"decoded", "parsed"} =>
        (recv.err <=> (FieldsBad(FieldsSeen, 1) \/ bitr.num_read_errors > ErrorsBefore))

\* C18: decode_coding_table returns Err exactly when a length field is not above the
\* earlier ones or is above 32, or the reader has recorded a read error, during the
\* parse or before it.
C18_ErrorCasesAnyError ==
    pc \in {"decoded", "parsed"} =>
        (recv.err <=> (FieldsBad(FieldsSeen, 1) \/ bitr.num_read_errors > 0))

C18_Witness ==
    /\ pc = "parsed"
    /\ recv.err
    /\ input = <<FALSE, TRUE>>
    /\ Len(sent) = HeaderMaxFields
    /\ ~FieldsBad(sent, 1)
    /\ Len(recv.code.lengths) = PREFIX_CODE_MAX_BITS + 1

\* A length field that repeats the one before is refused.
RepeatedLengthRefused ==
    pc = "parsed" /\ input = <<>> /\ Len(sent) > 1 /\ sent[2] = sent[1] => recv.err

(***************************************************************************)
(* The reused adaptive codec: one DynamicHuffmanEncoder and one            *)
(* DynamicHuffmanDecoder process several streams in turn, as Tester::run   *)
(* does: each step is a whole call of encode or of decode.  `sent` holds   *)
(* the inputs encoded, `recv` the outputs decoded.                         *)
(* src/coding/dynamic_huffman_coding.rs, src/coding/tester.rs              *)
(***************************************************************************)
RECURSIVE dyn_encode_bytes(_, _, _)
\* encode_loop: huffman.encode of the bytes from the k-th on; r = [h, bw, ok].
dyn_encode_bytes(r, bytes, k) ==
    IF k > Len(bytes) \/ ~r.ok THEN r
    ELSE dyn_encode_bytes(DynamicHuffman_encode(r.h, bytes[k], r.bw), bytes, k + 1)

\* encode_loop after the bytes: the end marker, then bit_writer.finish().
dyn_encode_end(r) ==
    IF ~r.ok THEN r
    ELSE [DynamicHuffman_encode(r.h, END_OF_STREAM, r.bw) EXCEPT !.bw = BitWriter_finish(@)]

\* DynamicHuffmanEncoder::encode_loop: returns [h, bw, ok].
DynamicHuffmanEncoder_encode_loop(huffman, bytes) ==
    dyn_encode_end(dyn_encode_bytes([h |-> huffman, bw |-> BitWriter_new, ok |-> TRUE], bytes, 1))

RECURSIVE dyn_decode_loop(_, _, _, _)
RECURSIVE dyn_decode_symbol(_, _, _)
\* decode_loop given the result d of huffman.decode: the end marker ends the loop.
dyn_decode_symbol(d, out, fuel) ==
    IF ~d.ok THEN [h |-> d.h, br |-> d.br, written |-> out, status |-> "panic"]
    ELSE IF d.symbol = END_OF_STREAM
    THEN [h |-> d.h, br |-> BitReader_finish(d.br), written |-> out, status |-> "ready"]
    ELSE dyn_decode_loop(d.h, d.br, Append(out, d.symbol % 256), fuel - 1)

\* The loop of decode_loop: returns [h, br, written, status].  The loop is cut after
\* `fuel` symbols.
dyn_decode_loop(h, br, out, fuel) ==
    IF fuel = 0 THEN [h |-> h, br |-> br, written |-> out, status |-> "overrun"]
    ELSE dyn_decode_symbol(DynamicHuffman_decode(h, br), out, fuel)

\* DynamicHuffmanDecoder::decode_loop
DynamicHuffmanDecoder_decode_loop(huffman, src) ==
    dyn_decode_loop(huffman, BitReader_new(src), <<>>, StreamsMaxBytes + 2)

\* DynamicHuffmanEncoder::new and DynamicHuffmanDecoder::new
StreamsInit ==
    /\ pc = "ready"
    /\ enc = DynamicHuffman_new(CodecNumSymbols)
    /\ dec = DynamicHuffman_new(CodecNumSymbols)
    /\ bitw = BitWriter_new
    /\ bitr = BitReader_new(<<>>)
    /\ sent = <<>>
    /\ recv = <<>>
    /\ encHist = <<>>
    /\ encSeen = {}
    /\ decSeen = {}
    /\ buffer = <<>>
    /\ written = <<>>
    /\ input = <<>>
    /\ StaticUnused

\* encoder.encode(input, output) on the encoder used so far.
StreamsEncode(bytes) ==
    /\ pc = "ready"
    /\ Len(sent) < StreamsMaxCalls
    /\ \E r \in {DynamicHuffmanEncoder_encode_loop(enc, bytes)} :
           /\ enc' = r.h
           /\ bitw' = r.bw
           /\ pc' = IF r.ok THEN "encoded" ELSE "panic"
    /\ input' = bytes
    /\ sent' = Append(sent, bytes)
    /\ UNCHANGED <<dec, bitr, recv, encHist, encSeen, decSeen, buffer, written>>
    /\ UNCHANGED staticVars

\* decoder.decode(input, output) on the decoder used so far, over the bytes encoded.
StreamsDecode ==
    /\ pc = "encoded"
    /\ \E r \in {DynamicHuffmanDecoder_decode_loop(dec, bitw.out)} :
           /\ dec' = r.h
           /\ bitr' = r.br
           /\ written' = r.written
           /\ recv' = Append(recv, r.written)
           /\ pc' = r.status
    /\ UNCHANGED <<enc, bitw, sent, encHist, encSeen, decSeen, buffer, input>>
    /\ UNCHANGED staticVars

StreamsNext ==
    \/ \E bytes \in UNION {[1..n -> 0..(END_OF_STREAM - 1)] : n \in 0..StreamsMaxBytes} :
           StreamsEncode(bytes)
    \/ StreamsDecode

SpecStreams == StreamsInit /\ [][StreamsNext]_vars

\* C19: every call of encode and of decode starts from the virgin tree: the encoder's
\* tree is virgin wherever encode can be called, the decoder's wherever decode can.
C19_VirginAtCallStart ==
    /\ pc = "ready" => enc = DynamicHuffman_new(CodecNumSymbols)
    /\ pc = "encoded" => dec = DynamicHuffman_new(CodecNumSymbols)

\* An encoder and a decoder that are reused together stay in step: every stream
\* decodes to its input, and the two trees are equal between the streams.
StreamsInStep ==
    /\ pc \in {"ready", "encoded"}
    /\ pc = "ready" => recv = sent /\ dec = enc

\* A second stream has been encoded and decoded by the same instances.
SecondStreamDone == pc = "ready" /\ Len(recv) = StreamsMaxCalls /\ Len(recv[Len(recv)]) = StreamsMaxBytes

\* The number of symbols after which a tree that was virgin is reset: the root of a
\* tree of k symbols weighs 2k + 1, which exceeds RESET_WEIGHT when it is WEIGHT_MAX.
ResetPeriod == (WEIGHT_MAX - 1) \div 2

\* C20: the tree is reset, to the virgin node array, exactly when the root's weight
\* would exceed RESET_WEIGHT, so no tree's root weighs more; the decoder resets after
\* the same number of symbols as the encoder, and the symbols after a reset decode to
\* themselves.
C20_Reset ==
    /\ pc # "panic"
    /\ At(enc.nodes, root_node_id(enc)).weight <= RESET_WEIGHT
    /\ At(dec.nodes, root_node_id(dec)).weight <= RESET_WEIGHT
    /\ \A k \in 1..Len(encHist) :
           /\ (Len(encHist[k]) = DynNumSymbols + 2) <=> (k % ResetPeriod = 0)
           /\ (k % ResetPeriod = 0) => encHist[k] = initialize_nodes(DynNumSymbols)
           /\ (k % ResetPeriod # 0) =>
                  At(encHist[k], DynNumSymbols + 1).weight = 2 * (k % ResetPeriod) + 1
    /\ pc = "decode" /\ Len(recv) > 0 =>
           /\ recv[Len(recv)] = sent[Len(recv)]
           /\ (dec.nodes = initialize_nodes(DynNumSymbols)) <=> (Len(recv) % ResetPeriod = 0)
           /\ (dec.nodes = initialize_nodes(DynNumSymbols))
                  <=> (encHist[Len(recv)] = initialize_nodes(DynNumSymbols))

C20_Witness ==
    /\ pc = "decode"
    /\ Len(recv) > ResetPeriod
    /\ recv = sent
    /\ encHist[ResetPeriod] = initialize_nodes(DynNumSymbols)
    /\ dec.nodes # initialize_nodes(DynNumSymbols)

(***************************************************************************)
(* The failing-source machine: a BitReader over a source of `input` whose  *)
(* reads may fail, driven by read_bits and fill_data until fill_buf        *)
(* panics.  `sent` holds the last call (the operation, its width, which of *)
(* its reads of the source fail, and the reader before it), `recv` the     *)
(* word the call returned, `written` the number of reads of the source     *)
(* that have failed, and `buffer` the number of reads narrower than a word.*)
(* src/bits/bit_reader.rs                                                  *)
(***************************************************************************)
\* The widths read, and for the coming reads of the source whether each fails.
ErrorWidths == {3, 64}
ErrorFails == {<<FALSE, FALSE>>, <<FALSE, TRUE>>, <<TRUE, TRUE>>}

ErrorsInit ==
    /\ pc = "reading"
    /\ input \in {SourceBytes(n) : n \in 0..ErrorsMaxBytes}
    /\ bitr = BitReader_new(input)
    /\ bitw = BitWriter_new
    /\ sent = <<>>
    /\ recv = <<>>
    /\ written = 0
    /\ buffer = 0
    /\ enc = <<>> /\ dec = <<>> /\ encHist = <<>> /\ encSeen = {} /\ decSeen = {}
    /\ weights = <<>>
    /\ overflow_checks = FALSE
    /\ prefix_code = <<>>
    /\ max_length = 0
    /\ encoder_table = <<>>
    /\ decoder = <<>>
    /\ input_len = 0

\* The number of failing reads among the first n of fails.
RECURSIVE FailedReads(_, _)
FailedReads(fails, n) ==
    IF n = 0 THEN 0 ELSE (IF fails[n] THEN 1 ELSE 0) + FailedReads(fails, n - 1)

\* The state after a call that left the reader rd and returned result, unless
\* fill_buf panicked in it.
ErrorsReturn(rd, result, fails) ==
    /\ bitr' = rd
    /\ pc' = IF rd.panicked THEN "panic" ELSE "reading"
    /\ recv' = IF rd.panicked THEN recv ELSE result
    /\ written' = written + FailedReads(fails, Len(fails) - Len(rd.src_fails))

\* br.read_bits(bits) over a source whose coming reads fail as `fails` tells.
ErrorsReadBits(bits, fails) ==
    /\ pc = "reading"
    /\ bits < WORD_BITS => buffer < ErrorsMaxNarrow
    /\ buffer' = IF bits < WORD_BITS THEN buffer + 1 ELSE buffer
    /\ \E r \in {BitReader_read_bits([bitr EXCEPT !.src_fails = fails], bits)} :
           ErrorsReturn(r.br, r.result, fails)
    /\ sent' = [op |-> "read_bits", bits |-> bits, fails |-> fails, before |-> bitr]
    /\ UNCHANGED <<bitw, input>>
    /\ UNCHANGED treeVars
    /\ UNCHANGED staticVars

\* br.fill_data(), then br.peek().
ErrorsFillData(fails) ==
    /\ pc = "reading"
    /\ \E rd \in {BitReader_fill_data([bitr EXCEPT !.src_fails = fails])} :
           ErrorsReturn(rd, rd.data, fails)
    /\ sent' = [op |-> "fill_data", bits |-> 0, fails |-> fails, before |-> bitr]
    /\ UNCHANGED <<bitw, buffer, input>>
    /\ UNCHANGED treeVars
    /\ UNCHANGED staticVars

ErrorsNext ==
    \/ \E bits \in ErrorWidths : \E fails \in ErrorFails : ErrorsReadBits(bits, fails)
    \/ \E fails \in ErrorFails : ErrorsFillData(fails)

SpecErrors == ErrorsInit /\ [][ErrorsNext]_vars

\* Bit k (from 1) of what a call can hand out: the bits available in data, the bytes
\* left in the buffer, the rest of the source when the call's first read succeeds, and
\* zeros after them.
KnownBit(before, fails, k) ==
    LET a == before.bits_avail
        b == 8 * (before.buf_end - before.buf_pos)
    IN  IF k <= a THEN before.data[k]
        ELSE IF k <= a + b
             THEN SourceBit(SubSeq(before.buf, before.buf_pos + 1, before.buf_end), k - a)
             ELSE IF fails[1] THEN 0
                  ELSE SourceBit(before.src, 8 * before.src_pos + (k - a - b))

\* The reads of the source the last call made.
ReadsMade == Len(sent.fails) - Len(bitr.src_fails)

\* C21: every failed read of the source adds exactly one to num_read_errors and
\* leaves the buffer empty; the call it happens in returns the bits that were at
\* hand followed by zeros; fill_buf panics at the 101st failed read and at no
\* earlier one.
C21_ReadErrors ==
    /\ bitr.num_read_errors = written
    /\ (pc = "panic") <=> (written = MAX_READ_ERRORS + 1)
    /\ written <= MAX_READ_ERRORS + 1
    /\ sent # <<>> =>
           /\ bitr.num_read_errors
                  = sent.before.num_read_errors + FailedReads(sent.fails, ReadsMade)
           /\ (ReadsMade > 0 /\ sent.fails[ReadsMade]) => bitr.buf_pos = bitr.buf_end
           /\ (pc = "panic") => (ReadsMade > 0 /\ sent.fails[ReadsMade])
           /\ (pc = "reading" /\ sent.op = "read_bits") =>
                  /\ \A i \in 1..WORD_BITS :
                         recv[i] = IF i > WORD_BITS - sent.bits
                                   THEN KnownBit(sent.before, sent.fails,
                                                 i - (WORD_BITS - sent.bits))
                                   ELSE 0
                  /\ \A i \in 1..bitr.bits_avail :
                         bitr.data[i] = KnownBit(sent.before, sent.fails, sent.bits + i)
           /\ (pc = "reading" /\ sent.op = "fill_data") =>
                  /\ recv = bitr.data
                  /\ \A i \in 1..bitr.bits_avail :
                         bitr.data[i] = KnownBit(sent.before, sent.fails, i)

C21_Witness ==
    /\ pc = "panic"
    /\ bitr.num_read_errors = MAX_READ_ERRORS + 1
    /\ bitr.src_pos = Len(input)
    /\ Len(input) > 0

(***************************************************************************)
(* The failing-writer machine: a BitWriter over a writer whose write_all   *)
(* may fail, driven by write_bits of whole words (the k-th word holds k),  *)
(* then at most one write of three bits, then finish.  `sent` is the       *)
(* number of words written, `buffer` the number of three-bit writes, and   *)
(* `written` the flushes so far: how many words had been completed, whether *)
(* the three bits were part of it, whether write_all failed and after how  *)
(* many bytes.                                                             *)
(* src/bits/bit_writer.rs                                                  *)
(***************************************************************************)
\* The number of bytes a failing write_all stores before it fails.
WriterPartials == {0, 3}

WriterInit ==
    /\ pc = "write"
    /\ bitw = BitWriter_new
    /\ bitr = BitReader_new(<<>>)
    /\ sent = 0
    /\ buffer = 0
    /\ written = <<>>
    /\ recv = <<>> /\ input = <<>>
    /\ enc = <<>> /\ dec = <<>> /\ encHist = <<>> /\ encSeen = {} /\ decSeen = {}
    /\ weights = <<>>
    /\ overflow_checks = FALSE
    /\ prefix_code = <<>>
    /\ max_length = 0
    /\ encoder_table = <<>>
    /\ decoder = <<>>
    /\ input_len = 0

\* The number of bytes handed to the flushes so far.
FlushedBytes(flushes) ==
    IF flushes = <<>> THEN 0
    ELSE 8 * flushes[Len(flushes)].words + flushes[Len(flushes)].narrow

\* The flushes after a call that completed `words` words: write_u64 flushes when the
\* buffer holds BUF_SIZE bytes.
FlushesAfter(words, fails, partial) ==
    IF 8 * words - FlushedBytes(written) >= BUF_SIZE
    THEN Append(written, [words |-> words, narrow |-> 0, failed |-> fails, partial |-> partial])
    ELSE written

\* bw.write_bits(k, 64) for the k-th word, over a writer whose next write_all fails
\* if `fails`.
WriterWriteWord(fails, partial) ==
    /\ pc = "write"
    /\ buffer = 0
    /\ sent < (BUF_SIZE \div 8) + 1 + WriterMaxExtra
    /\ bitw' = BitWriter_write_bits([bitw EXCEPT !.out_fails = <<fails>>,
                                                 !.out_partial = partial],
                                    ToWord(sent + 1), 64)
    /\ sent' = sent + 1
    /\ written' = FlushesAfter(IF sent = 0 THEN 0 ELSE sent, fails, partial)
    /\ UNCHANGED <<pc, bitr, recv, buffer, input>>
    /\ UNCHANGED treeVars
    /\ UNCHANGED staticVars

\* bw.write_bits(0b101, 3)
WriterWriteNarrow(fails, partial) ==
    /\ pc = "write"
    /\ buffer = 0
    /\ bitw' = BitWriter_write_bits([bitw EXCEPT !.out_fails = <<fails>>,
                                                 !.out_partial = partial],
                                    ToWord(5), 3)
    /\ buffer' = 1
    /\ written' = FlushesAfter(sent, fails, partial)
    /\ UNCHANGED <<pc, bitr, sent, recv, input>>
    /\ UNCHANGED treeVars
    /\ UNCHANGED staticVars

\* bw.finish()
WriterFinish(fails, partial) ==
    /\ pc = "write"
    /\ bitw' = BitWriter_finish([bitw EXCEPT !.out_fails = <<fails>>,
                                             !.out_partial = partial])
    /\ written' = Append(written, [words |-> sent, narrow |-> buffer,
                                   failed |-> fails /\ 8 * sent + buffer > FlushedBytes(written),
                                   partial |-> partial])
    /\ pc' = "done"
    /\ UNCHANGED <<bitr, sent, recv, buffer, input>>
    /\ UNCHANGED treeVars
    /\ UNCHANGED staticVars

WriterNext ==
    \/ \E fails \in BOOLEAN : \E partial \in WriterPartials : WriterWriteWord(fails, partial)
    \/ \E fails \in BOOLEAN : \E partial \in WriterPartials : WriterWriteNarrow(fails, partial)
    \/ \E fails \in BOOLEAN : \E partial \in WriterPartials : WriterFinish(fails, partial)

SpecWriter == WriterInit /\ [][WriterNext]_vars

\* Byte j (from 1) of the stream written: the words big-endian, then the byte finish
\* makes of the three bits 101.
StreamByte(j) ==
    IF j > 8 * sent THEN 160
    ELSE IF (j - 1) % 8 < 4 THEN 0
         ELSE ((((j - 1) \div 8) + 1) \div (256 ^ (7 - ((j - 1) % 8)))) % 256

\* The bytes of the stream after the first `from`, up to byte `to`.
StreamBytes(from, to) == AsSeq([i \in 1..(to - from) |-> StreamByte(from + i)])

\* What the writer has received after the first k flushes: all the bytes of a flush
\* whose write_all succeeded, and the bytes stored before the failure of one that failed.
RECURSIVE Received(_, _)
Received(flushes, k) ==
    IF k = 0 THEN <<>>
    ELSE LET from == FlushedBytes(SubSeq(flushes, 1, k - 1))
             to == FlushedBytes(SubSeq(flushes, 1, k))
         IN  Received(flushes, k - 1)
             \o StreamBytes(from, IF flushes[k].failed /\ flushes[k].partial < to - from
                                  THEN from + flushes[k].partial ELSE to)

\* The number of flushes whose write_all failed.
FailedFlushes == Cardinality({k \in 1..Len(written) : written[k].failed})

\* The whole words the writes have completed.
CompletedWords == IF buffer = 1 \/ sent = 0 THEN sent ELSE sent - 1

\* C22: a failed write of the underlying writer adds exactly one to write_errors and
\* stops nothing: the bytes of that flush leave the buffer and are never written
\* again, and the writes and the finish after it put their own bytes in the buffer
\* and in the writer as if the flush had succeeded.
C22_WriteErrors ==
    /\ bitw.write_errors = FailedFlushes
    /\ bitw.out = Received(written, Len(written))
    /\ bitw.bytes_written = FlushedBytes(written)
    /\ pc = "write" => bitw.buf = StreamBytes(FlushedBytes(written), 8 * CompletedWords)
    /\ pc = "done" => bitw.buf = <<>> /\ bitw.bytes_written = 8 * sent + buffer

C22_Witness ==
    /\ pc = "done"
    /\ Len(written) = 2
    /\ written[1].failed /\ written[1].partial > 0
    /\ ~written[2].failed
    /\ buffer = 1
    /\ sent > (BUF_SIZE \div 8) + 1

(***************************************************************************)
(* Scenario S5 on the scenario machine.                                    *)
(***************************************************************************)
\* C26 as stated: on the weights of scenario S5, apply_max_length_limit(M) returns,
\* for each M in {3, 4, 5, 6}, a code that passes the Kraft validator and has no
\* length above M.
C26_ScenarioAllLimits ==
    (/\ weights = ScenarioWeights
     /\ pc \in {"scenario_limited", "scenario_panic"}
     /\ max_length \in {3, 4, 5, 6}) =>
        /\ pc = "scenario_limited"
        /\ Len(prefix_code.lengths) <= max_length + 1
        /\ validate_prefix_code(prefix_code)

\* C26: on the weights of scenario S5, which give ten symbols a code, and on their
\* rotations, apply_max_length_limit(M) returns for each M in {4, 5, 6} a code that
\* passes the Kraft validator and has no length above M; apply_max_length_limit(3)
\* panics, since only eight code words of length 3 exist.
C26_ScenarioFeasibleLimits ==
    (pc \in {"scenario_limited", "scenario_panic"} /\ max_length >= 3) =>
        IF max_length >= 4
        THEN /\ pc = "scenario_limited"
             /\ Len(prefix_code.lengths) <= max_length + 1
             /\ validate_prefix_code(prefix_code)
             /\ AssignedExactlyOnce(prefix_code.lengths, NonzeroSymbols(weights))
        ELSE pc = "scenario_panic"

C26_Witness ==
    /\ weights = ScenarioWeights
    /\ pc = "scenario_limited"
    /\ max_length = 4
    /\ Len(prefix_code.lengths) = 5
    /\ Len(AssignedSymbols(prefix_code.lengths)) = 10


\* ---------------------------------------------------------------------------
\* The reader over a source that returns its bytes in short chunks
\* ---------------------------------------------------------------------------

\* The largest numbers of bytes one read call of the source returns.
ChunkSizes == {1, 3, 8}

\* BitReader::new(&mut reader) for a reader whose read returns at most chunk bytes.
ChunksInit ==
    /\ pc = "chunked"
    /\ input \in {SourceBytes(n) : n \in 0..ReaderMaxBytes}
    /\ \E chunk \in ChunkSizes : bitr = [BitReader_new(input) EXCEPT !.src_chunk = chunk]
    /\ bitw = BitWriter_new
    /\ sent = <<>>
    /\ recv = <<>>
    /\ buffer = <<>> /\ written = <<>>
    /\ enc = <<>> /\ dec = <<>> /\ encHist = <<>> /\ encSeen = {} /\ decSeen = {}
    /\ weights = <<>>
    /\ overflow_checks = FALSE
    /\ prefix_code = <<>>
    /\ max_length = 0
    /\ encoder_table = <<>>
    /\ decoder = <<>>
    /\ input_len = 0

SpecChunks == ChunksInit /\ [][ReaderNext]_vars

\* C29: whatever the chunking of the source, no bit handed out by read_bits or by
\* fill_data and consume before the end of the source differs from the source
\* bit at its position: no zero padding is inserted before the true end.
C29_ChunkedInOrder ==
    \A p \in 1..WidthsTotal(sent, Len(sent)) :
        p <= 8 * Len(input) => HandedOut(sent, recv, Len(sent))[p] = SourceBit(input, p)

\* With a source that returns at least 8 bytes per read until its end the bits
\* come in order.
ChunkedInOrderWithoutShortWord ==
    bitr.src_chunk >= 8 => C29_ChunkedInOrder


\* ---------------------------------------------------------------------------
\* The bits one encode call emits, on the adaptive tree machine
\* ---------------------------------------------------------------------------

\* The least b with 2^b >= n.
CeilLog2(n) == CHOOSE b \in 0..16 : 2 ^ b >= n /\ (b = 0 \/ 2 ^ (b - 1) < n)

\* The low n bits of v, the highest first.
RawBits(v, n) == AsSeq([i \in 1..n |-> (v \div (2 ^ (n - i))) % 2])

\* The ids of the nodes of the tree: the root first, the NYT leaf last.
TreeIds(nodes, num_symbols) == (num_symbols + 1)..(Len(nodes) - 1)

RECURSIVE PathFrom(_, _, _, _)
\* The way down from node `from` to node `target`: 0 for the left child
\* (nodes[from].child), 1 for the right child (the node after it); a 2 marks a
\* subtree without the target.
PathFrom(nodes, num_symbols, from, target) ==
    IF from = target THEN <<>>
    ELSE LET child == At(nodes, from).child
         IN  IF child <= num_symbols THEN <<2>>
             ELSE LET left == PathFrom(nodes, num_symbols, child, target)
                  IN  IF \A i \in 1..Len(left) : left[i] # 2
                      THEN <<0>> \o left
                      ELSE <<1>> \o PathFrom(nodes, num_symbols, child + 1, target)

\* The leaf of the tree that holds child value c (symbol + 1, or NYT_SYMBOL).
LeafOf(nodes, num_symbols, c) ==
    CHOOSE n \in TreeIds(nodes, num_symbols) : At(nodes, n).child = c

\* The node array before the k-th encode call.
TreeBefore(k) == IF k = 1 THEN initialize_nodes(DynNumSymbols) ELSE encHist[k - 1]

\* The case of the k-th call: the first symbol of a tree, an unseen one, a seen one.
EncodeCase(k) ==
    LET nodes == TreeBefore(k)
    IN  IF \E n \in TreeIds(nodes, DynNumSymbols) : At(nodes, n).child = sent[k] + 1
        THEN "seen"
        ELSE IF Len(nodes) = DynNumSymbols + 2 THEN "first" ELSE "unseen"

\* The bits the claim gives the k-th call.
EncodeBits(k) ==
    LET nodes == TreeBefore(k)
        root == DynNumSymbols + 1
        raw == RawBits(sent[k], CeilLog2(DynNumSymbols))
    IN  CASE EncodeCase(k) = "seen" ->
                 PathFrom(nodes, DynNumSymbols, root,
                          LeafOf(nodes, DynNumSymbols, sent[k] + 1))
          [] EncodeCase(k) = "first" -> raw
          [] OTHER ->
                 PathFrom(nodes, DynNumSymbols, root,
                          LeafOf(nodes, DynNumSymbols, NYT_SYMBOL)) \o raw

RECURSIVE EncodeStream(_)
EncodeStream(k) == IF k = 0 THEN <<>> ELSE EncodeStream(k - 1) \o EncodeBits(k)

RECURSIVE BytesBits(_)
BytesBits(bytes) ==
    IF bytes = <<>> THEN <<>> ELSE RawBits(Head(bytes), 8) \o BytesBits(Tail(bytes))

\* The bits a writer holds that finish has not been called on.
HeldBits(bw) ==
    BytesBits(bw.out) \o BytesBits(bw.buf) \o SubSeq(bw.data, 1, WORD_BITS - bw.bits_avail)

\* C30: the bits that the encode calls made so far have written are, call after
\* call, symbol_bits raw bits of the symbol for the first symbol of a tree (after
\* construction or a reset), the path from the root to the NYT leaf and then the
\* raw bits for another unseen symbol, and the path from the root to its leaf for
\* a seen symbol (0 for a left child, 1 for a right child, the root's bit first),
\* with symbol_bits = ceil(log2(num_symbols)).
C30_EncodeEmits ==
    pc = "encode" =>
        /\ enc.symbol_bits = CeilLog2(DynNumSymbols)
        /\ HeldBits(bitw) = EncodeStream(Len(sent))

C30_Witness ==
    /\ pc = "encode"
    /\ \E k \in 2..Len(sent) : EncodeCase(k) = "first"
    /\ \E k \in 1..Len(sent) : EncodeCase(k) = "unseen" /\ Len(EncodeBits(k)) > CeilLog2(DynNumSymbols) + 1
    /\ \E k \in 1..Len(sent) :
           /\ EncodeCase(k) = "seen"
           /\ \E i, j \in 1..Len(EncodeBits(k)) : EncodeBits(k)[i] = 0 /\ EncodeBits(k)[j] = 1


\* ---------------------------------------------------------------------------
\* The calls of slide_and_increment that one tree update makes
\* ---------------------------------------------------------------------------

\* The swaps one slide_and_increment call is about to make, in order: the node
\* array at the swap, the node and the leader it is swapped with.
SlideSwaps(nodes0, num_symbols, node_id0) ==
    LET weight == At(nodes0, node_id0).weight
        nodes1 == [nodes0 EXCEPT ![node_id0 + 1].weight = AddW(weight, 2)]
        parent_id0 == At(nodes0, node_id0).parent
        prev_id0 == node_id0 - 1
    IN  IF At(nodes1, prev_id0).weight >= AddW(weight, 2) \/ prev_id0 = parent_id0
        THEN <<>>
        ELSE
        LET stop1 == ScanSameWeight(nodes1, prev_id0, weight)
            prev_id1 == stop1 + 1
            swap1 == prev_id1 < node_id0
            nodes2 == IF swap1 THEN swap_subtrees(nodes1, num_symbols, node_id0, prev_id1)
                      ELSE nodes1
            node_id1 == IF swap1 THEN prev_id1 ELSE node_id0
            stop2 == ScanBelowTarget(nodes2, prev_id1, At(nodes1, stop1).weight,
                                     AddW(weight, 2))
            prev_id2 == stop2 + 1
        IN  (IF swap1 THEN <<[nodes |-> nodes1, node |-> node_id0, leader |-> prev_id1]>>
             ELSE <<>>)
            \o (IF prev_id2 < node_id1
                THEN <<[nodes |-> nodes2, node |-> node_id1, leader |-> prev_id2]>>
                ELSE <<>>)

RECURSIVE SlideTrace(_, _, _)
\* The calls of slide_and_increment that slide_and_increment_loop(node_id) makes:
\* the node array before the call, its argument, what it returns, whether its
\* assertions held, and its swaps.
SlideTrace(nodes, num_symbols, node_id) ==
    LET r == slide_and_increment(nodes, num_symbols, node_id)
    IN  <<[nodes |-> nodes, node |-> node_id, ret |-> r.ret, ok |-> r.ok,
           swaps |-> SlideSwaps(nodes, num_symbols, node_id)]>>
        \o (IF ~r.ok \/ r.ret = 0 THEN <<>> ELSE SlideTrace(r.nodes, num_symbols, r.ret))

\* The calls made by the update of tree h for symbol s, which encode(s) and a
\* decode that yields s both make: from the leaf of a seen symbol, from the old
\* NYT node after add_new_symbol has added the two nodes of an unseen one.
UpdateTrace(h, symbol) ==
    LET node_id == At(h.nodes, symbol + 1).parent
        nyt_id == Len(h.nodes) - 1
        n1 == [h.nodes EXCEPT ![nyt_id + 1].weight = 1, ![nyt_id + 1].child = nyt_id + 1]
        n2 == Append(n1, Node(2, nyt_id, symbol + 1))
        n3 == [n2 EXCEPT ![symbol + 2].parent = nyt_id + 1]
        n4 == Append(n3, Node(0, nyt_id, NYT_SYMBOL))
    IN  IF node_id # 0 THEN SlideTrace(h.nodes, h.num_symbols, node_id)
        ELSE SlideTrace(n4, h.num_symbols, nyt_id)

\* The trees the machine holds: the encoder's, and the decoder's while decoding.
HeldTrees == IF pc = "encode" THEN {enc} ELSE IF pc = "decode" THEN {enc, dec} ELSE {}

\* The traces of the updates that can follow the state, one per tree and symbol.
NextTraces == {UpdateTrace(h, symbol) : h \in HeldTrees, symbol \in 0..(DynNumSymbols - 1)}

RECURSIVE Ancestors(_, _)
\* The parent of node n, its parent, and so on up to the root.
Ancestors(nodes, n) ==
    IF At(nodes, n).parent = 0 THEN {}
    ELSE {At(nodes, n).parent} \cup Ancestors(nodes, At(nodes, n).parent)

\* C31: on every tree reached by encoding and decoding valid symbols, and for
\* every symbol whose update follows, the two assertions of slide_and_increment
\* hold in every call, and at every swap the node's parent index is below the
\* leader's index and the leader is neither the node's parent nor an ancestor.
C31_SwapAssertions ==
    /\ pc # "panic"
    /\ \A t \in NextTraces : \A c \in 1..Len(t) :
           /\ t[c].ok
           /\ \A e \in 1..Len(t[c].swaps) :
                  LET sw == t[c].swaps[e]
                  IN  /\ At(sw.nodes, sw.node).parent < sw.leader
                      /\ sw.leader \notin Ancestors(sw.nodes, sw.node)

C31_Witness ==
    /\ pc = "decode"
    /\ \E t \in NextTraces :
           /\ \E c \in 1..Len(t) : Len(t[c].swaps) = 2
           /\ \E c \in 1..Len(t) : \E e \in 1..Len(t[c].swaps) :
                  At(t[c].swaps[e].nodes, t[c].swaps[e].node).parent + 1 = t[c].swaps[e].leader


\* C32: in every update that can follow a reachable tree, each call of
\* slide_and_increment returns an index strictly below the index it was called
\* with, the returned index being 0 or a node of the tree, and the loop ends with
\* the call made on the root, which returns 0.
C32_SlideTerminates ==
    \A t \in NextTraces :
        /\ \A c \in 1..Len(t) :
               /\ t[c].ret < t[c].node
               /\ t[c].ret # 0 => t[c].ret \in TreeIds(t[c].nodes, DynNumSymbols)
               /\ c < Len(t) => t[c].ret # 0 /\ t[c + 1].node = t[c].ret
        /\ t[Len(t)].ret = 0
        /\ t[Len(t)].node = DynNumSymbols + 1

C32_Witness ==
    /\ pc = "encode"
    /\ \E t \in NextTraces :
           /\ Len(t) >= 4
           /\ \E c \in 1..Len(t) : t[c].swaps # <<>> /\ t[c].ret + 1 < t[c].swaps[Len(t[c].swaps)].leader


\* ---------------------------------------------------------------------------
\* The encoder's steps after the build: apply_max_length_limit(32), then
\* generate_encoder_table (static_huffman_coding.rs, encode_loop)
\* ---------------------------------------------------------------------------

\* The depths of the full trees of the machine.
AcceptDepths == {1, 2, 3, 4, 28, 29, 32, 33, 34}

\* The full trees of the machine: one internal node at every depth, and two at
\* depth `wide` when wide is not 0.
AcceptShapes ==
    {AsSeq([d \in 1..(depth - 1) |-> IF d = wide THEN 2 ELSE 1]) :
        depth \in AcceptDepths, wide \in 0..2}

\* The codes of the machine, in both symbol orders.
AcceptCodes ==
    {create_prefix_table(ShapeData(shape)) : shape \in AcceptShapes}
    \cup {ReversedCode(create_prefix_table(ShapeData(shape))) : shape \in AcceptShapes}

\* let mut prefix_code = huffman.build_from_weights(&frequencies)
AcceptInit ==
    /\ pc = "built"
    /\ prefix_code \in AcceptCodes
    /\ overflow_checks \in BOOLEAN
    /\ weights = <<>>
    /\ max_length = Len(prefix_code.lengths) - 1
    /\ encoder_table = <<>>
    /\ decoder = <<>>
    /\ input_len = 0
    /\ enc = <<>> /\ dec = <<>> /\ encHist = <<>> /\ encSeen = {} /\ decSeen = {}
    /\ bitw = BitWriter_new
    /\ bitr = BitReader_new(<<>>)
    /\ sent = <<>> /\ recv = <<>> /\ buffer = <<>> /\ written = <<>> /\ input = <<>>

\* prefix_code.apply_max_length_limit(32)
AcceptLimit ==
    /\ pc = "built"
    /\ \E l \in {apply_max_length_limit(prefix_code, PREFIX_CODE_MAX_BITS, overflow_checks)} :
           /\ prefix_code' = l.code
           /\ pc' = IF l.ok THEN "limited" ELSE "limit_panic"
    /\ UNCHANGED <<weights, overflow_checks, max_length, encoder_table, decoder, input_len>>
    /\ UNCHANGED <<bitw, bitr, sent, recv, buffer, written, input>>
    /\ UNCHANGED treeVars

\* let encoder_table = prefix_code.generate_encoder_table()
AcceptGenerate ==
    /\ pc = "limited"
    /\ \E t \in {generate_encoder_table(prefix_code)} :
           /\ encoder_table' = t.codes
           /\ pc' = IF t.ok THEN "accepted" ELSE "table_panic"
    /\ UNCHANGED <<weights, overflow_checks, prefix_code, max_length, decoder, input_len>>
    /\ UNCHANGED <<bitw, bitr, sent, recv, buffer, written, input>>
    /\ UNCHANGED treeVars

AcceptNext == AcceptLimit \/ AcceptGenerate

SpecAccept == AcceptInit /\ [][AcceptNext]_vars

\* Every symbol of a bucket has a code word of the bucket's length.
EveryCodeWordAssigned ==
    \A L \in 2..Len(prefix_code.lengths) : \A k \in 1..Len(prefix_code.lengths[L]) :
        encoder_table[prefix_code.lengths[L][k] + 1].len = L - 1

\* C33: every code the encoder holds after apply_max_length_limit(32), whose
\* longest code word has up to and including 32 bits, is accepted by
\* generate_encoder_table: the assertion on the number of buckets holds and
\* every assigned symbol gets its code word.
C33_EncoderTableAccepts ==
    /\ pc \in {"limited", "accepted", "table_panic"} =>
           Len(prefix_code.lengths) - 1 <= PREFIX_CODE_MAX_BITS
    /\ pc # "table_panic"
    /\ pc = "accepted" => EveryCodeWordAssigned

\* A code whose longest code word has fewer than 32 bits is accepted.
AcceptedBelowMaxBits ==
    /\ pc \in {"limited", "accepted", "table_panic"} =>
           Len(prefix_code.lengths) - 1 <= PREFIX_CODE_MAX_BITS
    /\ pc # "limit_panic"
    /\ pc = "table_panic" => Len(prefix_code.lengths) - 1 = PREFIX_CODE_MAX_BITS
    /\ pc = "accepted" => EveryCodeWordAssigned

\* A code of 32-bit code words that the limit left as built, and one it shortened.
RefusedAtMaxBits ==
    /\ pc = "table_panic"
    /\ max_length > PREFIX_CODE_MAX_BITS


\* ---------------------------------------------------------------------------
\* The adaptive decoder on bytes that no encoder wrote
\* ---------------------------------------------------------------------------

\* The byte values of the sources.
ForgedBytes == {0, 32, 110, 181, 255}

ForgedInit ==
    /\ pc = "forged"
    /\ input \in UNION {[1..n -> ForgedBytes] : n \in 0..ForgedMaxBytes}
    /\ dec = DynamicHuffman_new(DynNumSymbols)
    /\ enc = <<>>
    /\ bitr = BitReader_new(input)
    /\ bitw = BitWriter_new
    /\ sent = <<>>
    /\ recv = <<>>
    /\ encHist = <<>>
    /\ encSeen = {}
    /\ decSeen = {}
    /\ buffer = <<>>
    /\ written = <<>>
    /\ StaticUnused

\* The raw symbol decode reads when the descent ends at the NYT leaf, -1 when it
\* ends at the leaf of a symbol.
ForgedRawSymbol(h, br0) ==
    LET w == decode_from(h, IF br0.bits_avail < 16 THEN BitReader_fill_data(br0) ELSE br0,
                         root_node_id(h))
    IN  IF w.child_id # NYT_SYMBOL THEN -1
        ELSE LowBits(BitReader_read_bits(BitReader_consume(w.br, w.bits_consumed),
                                         h.symbol_bits).result, 16)

\* add_new_symbol up to its call of slide_and_increment_loop.
add_new_symbol_nodes(nodes, symbol) ==
    LET nyt_id == Len(nodes) - 1
        n1 == [nodes EXCEPT ![nyt_id + 1].weight = 1, ![nyt_id + 1].child = nyt_id + 1]
        n2 == Append(n1, Node(2, nyt_id, symbol + 1))
        n3 == [n2 EXCEPT ![symbol + 2].parent = nyt_id + 1]
    IN  Append(n3, Node(0, nyt_id, NYT_SYMBOL))

\* huffman.decode(&mut reader).  A raw symbol equal to num_symbols makes
\* add_new_symbol write the parent field of nodes[num_symbols + 1], the root:
\* every run of slide_and_increment_loop ends on the root and goes on to the
\* parent it names, so the loop no longer ends and decode does not return.
ForgedDecode ==
    /\ pc = "forged"
    /\ Len(recv) < ForgedMaxSyms
    /\ IF ForgedRawSymbol(dec, bitr) = dec.num_symbols
       THEN /\ pc' = "no_return"
            /\ dec' = [dec EXCEPT !.nodes = add_new_symbol_nodes(@, dec.num_symbols)]
            /\ recv' = Append(recv, dec.num_symbols)
            /\ UNCHANGED <<bitr, decSeen>>
       ELSE \E r \in {DynamicHuffman_decode(dec, bitr)} :
                /\ dec' = r.h
                /\ bitr' = r.br
                /\ recv' = Append(recv, r.symbol)
                /\ pc' = IF r.ok THEN "forged" ELSE "panic"
                /\ decSeen' = SeenAfter(decSeen, r.h, r.symbol)
    /\ UNCHANGED <<enc, bitw, sent, encHist, encSeen, buffer, written, input>>
    /\ UNCHANGED staticVars

ForgedNext == ForgedDecode

SpecForged == ForgedInit /\ [][ForgedNext]_vars

\* C34: whatever the bits presented to decode, also bits that no encoder wrote,
\* decode returns a symbol below num_symbols and leaves a tree whose adjacent
\* nodes have non-increasing weights and that has exactly one leaf for every
\* symbol seen and none for the others.
C34_DecodeAnyBits ==
    /\ pc = "forged"
    /\ \A k \in 1..Len(recv) : recv[k] < DynNumSymbols
    /\ SiblingProperty(dec)
    /\ \A s \in 0..(DynNumSymbols - 1) :
           Cardinality(LeavesOf(dec, s)) = IF s \in decSeen THEN 1 ELSE 0

\* A raw symbol that names no symbol: decode does not return.
ForgedSymbolOutOfRange ==
    /\ pc = "no_return"
    /\ At(dec.nodes, DynNumSymbols + 1).parent # 0

\* A raw symbol that was seen before: decode returns it and the tree has two
\* leaves for it.
ForgedSymbolTwice ==
    /\ pc = "forged"
    /\ \E s \in 0..(DynNumSymbols - 1) : Cardinality(LeavesOf(dec, s)) > 1

\* What holds on any bits: adjacent weights do not increase, no assertion fails
\* and no index leaves the node array.
ForgedSiblingHolds ==
    /\ pc # "panic"
    /\ pc = "forged" => SiblingProperty(dec)


\* ---------------------------------------------------------------------------
\* The heap of build_from_weights, merge by merge (static_huffman.rs)
\* ---------------------------------------------------------------------------

\* The weights of tests::test_merge_leaf_nodes_first.
MergeLeafFirstWeights == <<2, 2, 2, 2, 4, 4>>

\* Every vector of HeapNumSymbols weights up to HeapMaxWeight, and the test's.
HeapInit ==
    /\ pc = "heap_start"
    /\ weights \in [1..HeapNumSymbols -> 0..HeapMaxWeight] \cup {MergeLeafFirstWeights}
    /\ \E w \in 1..Len(weights) : weights[w] > 0
    /\ overflow_checks = FALSE
    /\ prefix_code = <<>>
    /\ max_length = 0
    /\ BuilderUnused

\* build_from_weights up to check_heap(&table, symbol_size): buffer is the table,
\* max_length the size of the heap in it.
HeapHeapify ==
    /\ pc = "heap_start"
    /\ buffer' = heapify_table(initial_table(weights, nonzero_symbols(weights)), 1)
    /\ max_length' = Len(nonzero_symbols(weights))
    /\ pc' = "merging"
    /\ UNCHANGED <<weights, overflow_checks, prefix_code, encoder_table, decoder, input_len>>
    /\ UNCHANGED <<bitw, bitr, sent, recv, written, input>>
    /\ UNCHANGED treeVars

\* One turn of while size >= 2: left and right are taken and their parent is
\* inserted.  sent records the nodes taken and the heaps they were taken from.
HeapMerge ==
    /\ pc = "merging"
    /\ max_length >= 2
    /\ \E table1 \in {heapify_down(buffer, max_length - 1, At(buffer, max_length - 1))} :
           /\ buffer' = heapify_down(table1, max_length - 1,
                                     HeapNode(Len(sent) + Len(nonzero_symbols(weights)),
                                              parent_weight(At(buffer, 0), At(table1, 0))
                                                  % WEIGHT_MODULUS))
           /\ sent' = Append(sent, [left |-> At(buffer, 0),
                                    right |-> At(table1, 0),
                                    heap |-> SubSeq(buffer, 1, max_length),
                                    rest |-> SubSeq(table1, 1, max_length - 1)])
    /\ max_length' = max_length - 1
    /\ UNCHANGED <<pc, weights, overflow_checks, prefix_code, encoder_table, decoder, input_len>>
    /\ UNCHANGED <<bitw, bitr, recv, written, input>>
    /\ UNCHANGED treeVars

HeapNext == HeapHeapify \/ HeapMerge

SpecHeap == HeapInit /\ [][HeapNext]_vars

\* check_heap: no node of the first `size` is lighter than its parent.
HeapValid(heap, size) ==
    \A i \in 0..(size - 1) :
        /\ 2 * i + 1 < size => At(heap, i).weight <= At(heap, 2 * i + 1).weight
        /\ 2 * i + 2 < size => At(heap, i).weight <= At(heap, 2 * i + 2).weight

\* The node has the least encoded weight of the nodes, and if it is an internal
\* node (odd weight) no leaf among them has its raw weight.
TakenFirst(node, nodes) ==
    \A k \in 1..Len(nodes) :
        /\ node.weight <= nodes[k].weight
        /\ node.weight % 2 = 1 /\ nodes[k].weight % 2 = 0
               => nodes[k].weight \div 2 # node.weight \div 2

\* C35: the heap property holds after the initial heapify and after every merge
\* step, each of the two nodes a merge takes has the least encoded weight of the
\* nodes then in the heap, and an internal node is never taken while a leaf of
\* the same raw weight is in the heap.
C35_HeapProperty ==
    pc = "merging" =>
        /\ HeapValid(buffer, max_length)
        /\ \A k \in 1..Len(sent) :
               /\ TakenFirst(sent[k].left, sent[k].heap)
               /\ TakenFirst(sent[k].right, sent[k].rest)

C35_Witness ==
    /\ pc = "merging"
    /\ weights = MergeLeafFirstWeights
    /\ max_length = 1
    /\ \E k \in 1..Len(sent) :
           /\ sent[k].left.weight % 2 = 0
           /\ sent[k].right.weight % 2 = 0
           /\ \E j \in 1..Len(sent[k].heap) :
                  /\ sent[k].heap[j].weight % 2 = 1
                  /\ sent[k].heap[j].weight \div 2 = sent[k].left.weight \div 2


\* ---------------------------------------------------------------------------
\* The length of the node array, on the adaptive tree machine
\* ---------------------------------------------------------------------------

\* The node array of h has num_symbols + 2 elements and two more for each of the
\* symbols seen, and no more than the capacity reserved by new().
NodeCount(h, seen) ==
    /\ Len(h.nodes) = h.num_symbols + 2 + 2 * Cardinality(seen)
    /\ Len(h.nodes) <= 3 * h.num_symbols + 2

\* C36: after every sequence of encodes of valid symbols, and of decodes of what
\* they wrote, the node array has num_symbols + 2 + 2 * d elements, d being the
\* number of distinct symbols seen since the last reset; an encode adds exactly
\* two elements for an unseen symbol and none for a seen one (a reset leaves
\* num_symbols + 2), and the length never exceeds 3 * num_symbols + 2.
C36_NodeCount ==
    pc \in {"encode", "decode"} =>
        /\ NodeCount(enc, encSeen)
        /\ NodeCount(dec, decSeen)
        /\ \A k \in 1..Len(sent) :
               Len(encHist[k]) =
                   IF k % ResetPeriod = 0 THEN DynNumSymbols + 2
                   ELSE IF EncodeCase(k) = "seen" THEN Len(TreeBefore(k))
                   ELSE Len(TreeBefore(k)) + 2

C36_Witness ==
    /\ pc = "decode"
    /\ Len(recv) = Len(sent)
    /\ Len(sent) > ResetPeriod
    /\ \E k \in 1..ResetPeriod : Len(encHist[k]) = 3 * DynNumSymbols + 2
    /\ \E k \in 2..ResetPeriod : EncodeCase(k) = "unseen"
    /\ EncodeCase(ResetPeriod) = "seen"
    /\ Len(dec.nodes) = DynNumSymbols + 4


\* ---------------------------------------------------------------------------
\* The nodes swap_subtrees is applied to, on the adaptive tree machine
\* ---------------------------------------------------------------------------

\* The swaps of the updates that can follow the state.
NextSwaps ==
    UNION {UNION {{t[c].swaps[e] : e \in 1..Len(t[c].swaps)} : c \in 1..Len(t)} :
              t \in NextTraces}

\* C37: in every update of a reachable tree, swap_subtrees is applied neither to
\* the root nor to the NYT leaf (the last node); in every reachable tree the
\* root's parent field is 0 and the element at index 0 is as initialize_nodes
\* made it.
C37_RootAndNytStay ==
    /\ \A sw \in NextSwaps :
           {sw.node, sw.leader} \cap {DynNumSymbols + 1, Len(sw.nodes) - 1} = {}
    /\ \A h \in HeldTrees :
           /\ At(h.nodes, root_node_id(h)).parent = 0
           /\ At(h.nodes, 0) = Node(WEIGHT_MAX, 0, 0)

C37_Witness ==
    /\ pc = "decode"
    /\ Len(dec.nodes) = 3 * DynNumSymbols + 2
    /\ \E sw \in NextSwaps : sw.leader = DynNumSymbols + 2
    /\ \E sw \in NextSwaps : sw.node = Len(sw.nodes) - 2


\* ---------------------------------------------------------------------------
\* The slow scan of PrefixDecoder::decode, on the table machine
\* ---------------------------------------------------------------------------

\* let peek_data: u64 = bit_reader.peek(), of the reader of the bytes written.
SlowPeek == BitReader_fill_data(BitReader_new(bitw.out))

\* let shifted_data = peek_data >> (64 - decode.length), for the k-th entry.
SlowShifted(k) ==
    LowBits(Shr(SlowPeek.data, WORD_BITS - decoder.slow_decode_table[k].length),
            decoder.slow_decode_table[k].length)

\* delta < decode.symbols.len() at the k-th entry: a difference that wrapped is at
\* least 2^64 - base, above every symbol count.
SlowHit(k) ==
    /\ SlowShifted(k) >= decoder.slow_decode_table[k].base
    /\ SlowShifted(k) - decoder.slow_decode_table[k].base
           < Len(decoder.slow_decode_table[k].symbols)

\* C38: when the code word written is longer than both tables, the slow scan
\* stops at the entry of the code word's own length: at every entry up to and
\* including it the shifted peek value is at least the entry's base, no entry
\* before it has a difference below its symbol count, and the scan returns the
\* symbol written and consumes its length.
C38_SlowScanNoUnderflow ==
    (/\ pc \in {"written", "decoded"}
     /\ SentLength > DECODE_TABLE_BITS + decoder.secondary_table_bits) =>
        /\ \E m \in 1..Len(decoder.slow_decode_table) :
               /\ decoder.slow_decode_table[m].length = SentLength
               /\ SlowHit(m)
               /\ \A k \in 1..m : SlowShifted(k) >= decoder.slow_decode_table[k].base
               /\ \A k \in 1..(m - 1) : ~SlowHit(k)
        /\ decode_slow(decoder, SlowPeek, 1, TRUE) =
               [br |-> BitReader_consume(SlowPeek, SentLength),
                symbol |-> sent[1], ok |-> TRUE]

\* The slow scan passed the entry of a shorter length before it matched at the
\* second, on a peek word whose trailing bits are ones.
C38_Witness ==
    /\ pc = "decoded"
    /\ recv = sent
    /\ SentLength > DECODE_TABLE_BITS + decoder.secondary_table_bits
    /\ Len(decoder.slow_decode_table) >= 2
    /\ decoder.slow_decode_table[2].length = SentLength
    /\ SlowHit(2)
    /\ SlowPeek.data[WORD_BITS] = 1


\* ---------------------------------------------------------------------------
\* The size of the secondary tables, on the table machine
\* ---------------------------------------------------------------------------

\* The longest code length of the code: the last non-empty bucket.
LongestCodeLength ==
    CHOOSE L \in 1..(Len(prefix_code.lengths) - 1) :
        /\ Len(At(prefix_code.lengths, L)) > 0
        /\ \A K \in (L + 1)..(Len(prefix_code.lengths) - 1) : Len(At(prefix_code.lengths, K)) = 0

\* The offsets into the code table that the primary table links to.
SecondaryOffsets ==
    {decoder.code_table[k] - decoder.num_symbols :
        k \in {j \in 1..Min(2 ^ DECODE_TABLE_BITS, Len(decoder.code_table)) :
                  decoder.code_table[j] >= decoder.num_symbols}}

\* The code table is the primary table followed by the blocks linked to, each of
\* 2^bits entries.
SecondaryTablesOf(bits) ==
    /\ decoder.secondary_table_bits = bits
    /\ SecondaryOffsets # {}
    /\ \A o \in SecondaryOffsets :
           /\ o >= 2 ^ DECODE_TABLE_BITS
           /\ (o - 2 ^ DECODE_TABLE_BITS) % (2 ^ bits) = 0
           /\ o + 2 ^ bits <= Len(decoder.code_table)
    /\ Len(decoder.code_table) =
           2 ^ DECODE_TABLE_BITS + Cardinality(SecondaryOffsets) * 2 ^ bits

\* C39: for a code longer than the primary table, every secondary table has
\* 2^S entries with S = min(max_length - 1 - P, Smax), max_length the longest
\* code length.
C39_SecondaryTableSizeMinusOne ==
    (pc # "panic" /\ LongestCodeLength > DECODE_TABLE_BITS) =>
        SecondaryTablesOf(Min(LongestCodeLength - 1 - DECODE_TABLE_BITS,
                              MAX_SECONDARY_TABLE_BITS))

\* C39, as the code has it: S = min(lengths.len() - 1 - P, Smax), which is
\* min(max_length - P, Smax) since the last bucket of the code is not empty; a
\* code no longer than the primary table has no secondary table and S = 0.
C39_SecondaryTableSize ==
    pc # "panic" =>
        /\ LongestCodeLength = Len(prefix_code.lengths) - 1
        /\ LongestCodeLength > DECODE_TABLE_BITS =>
               SecondaryTablesOf(Min(LongestCodeLength - DECODE_TABLE_BITS,
                                     MAX_SECONDARY_TABLE_BITS))
        /\ LongestCodeLength <= DECODE_TABLE_BITS =>
               /\ decoder.secondary_table_bits = 0
               /\ SecondaryOffsets = {}
               /\ Len(decoder.code_table) <= 2 ^ DECODE_TABLE_BITS

\* A code one bit longer than the primary table, decoded through a secondary
\* table of two entries.
C39_Witness ==
    /\ pc = "decoded"
    /\ recv = sent
    /\ LongestCodeLength = DECODE_TABLE_BITS + 1
    /\ SentLength = LongestCodeLength
    /\ SecondaryTablesOf(1)

\* A code with secondary tables at the cap and a slow table.
SecondaryTablesAtCap ==
    /\ pc = "coded"
    /\ LongestCodeLength > DECODE_TABLE_BITS + MAX_SECONDARY_TABLE_BITS
    /\ SecondaryTablesOf(MAX_SECONDARY_TABLE_BITS)
    /\ Cardinality(SecondaryOffsets) >= 2

====
